---- MODULE Spec2Model ----
(***************************************************************************)
(* A model of the joydb store: relations with dirty tracking               *)
(* (joydb/src/relation.rs), the state that aggregates them                 *)
(* (joydb/src/state.rs), the unified and partitioned adapters              *)
(* (joydb/src/adapters), and the shared, lock-protected store handle with  *)
(* its sync policies, drop-time flush and background flush thread          *)
(* (joydb/src/db.rs).                                                      *)
(***************************************************************************)
EXTENDS Integers, Sequences, FiniteSets, TLC

\* ------------------------------------------------------------- bounds
\* The payloads a record of the store may carry, and the handles of a store.
MaxVal == 2
NumHandles == 2

\* ------------------------------------------------------------- data
\* The models of the state, in declaration order (state! { models: [User, Post] }).
Rels == <<"User", "Post">>
RelNames == {Rels[i] : i \in 1..Len(Rels)}

\* The store is exercised with one identifier per relation: what its claims turn
\* on is whether a record with the identifier is there, and with which payload.
Ids == {1}
Vals == 1..MaxVal
\* A record of a model: its id (Model::id) and the rest of it, the payload. The
\* second model has a single payload: it is there for what the state and the
\* adapters do across relations.
ValsOf(r) == IF r = Rels[1] THEN Vals ELSE {1}
RecordsOf(r) == [id : Ids, val : ValsOf(r)]
\* The predicates of get_all_by / delete_all_by: a predicate is the set of
\* payloads it accepts; these accept one payload each.
Preds == {{v} : v \in Vals}

\* The threads: the callers of the handles 1..NumHandles, and the background
\* thread of a Periodic store. Free stands for no holder of the Mutex.
Handles == 1..NumHandles
BG == 0
Free == -1
Threads == Handles \cup {BG}

\* Relation::new: no records, RelationMeta::default() (is_dirty = false).
NewRelation == [records |-> <<>>, is_dirty |-> FALSE]

\* S::default(): every relation is Relation::default().
DefaultState == [r \in RelNames |-> NewRelation]

\* ------------------------------------------------------------- relation
RECURSIVE Position(_, _, _)
\* The index of the first record of recs, from index i on, with this id; 0: none.
Position(recs, id, i) ==
    IF i > Len(recs) THEN 0
    ELSE IF recs[i].id = id THEN i
    ELSE Position(recs, id, i + 1)

RECURSIVE Filter(_, _)
\* The records whose payload is in keep, in order.
Filter(recs, keep) ==
    IF recs = <<>> THEN <<>>
    ELSE IF Head(recs).val \in keep
         THEN <<Head(recs)>> \o Filter(Tail(recs), keep)
         ELSE Filter(Tail(recs), keep)

RemoveAt(recs, i) == SubSeq(recs, 1, i - 1) \o SubSeq(recs, i + 1, Len(recs))

\* A mutating method answers the relation it leaves, its result and, for the
\* deleting ones, what it removed.
RelInsertNoCheck(rel, rec) ==
    [rel |-> [records |-> Append(rel.records, rec), is_dirty |-> TRUE],
     res |-> "Ok", out |-> <<>>]

RelInsertOverwrite(rel, rec) ==
    IF Position(rel.records, rec.id, 1) # 0
    THEN [rel |-> rel, res |-> "DuplicatedId", out |-> <<>>]
    ELSE [rel |-> [records |-> <<rec>>, is_dirty |-> TRUE],
          res |-> "Ok", out |-> <<>>]

RelInsert(rel, rec) ==
    IF Position(rel.records, rec.id, 1) # 0
    THEN [rel |-> rel, res |-> "DuplicatedId", out |-> <<>>]
    ELSE [rel |-> [records |-> Append(rel.records, rec), is_dirty |-> TRUE],
          res |-> "Ok", out |-> <<>>]

RelUpdateMarksDirty(rel, rec) ==
    LET i == Position(rel.records, rec.id, 1) IN
    IF i # 0
    THEN [rel |-> [records |-> [rel.records EXCEPT ![i] = rec], is_dirty |-> TRUE],
          res |-> "Ok", out |-> <<>>]
    ELSE [rel |-> [rel EXCEPT !.is_dirty = TRUE], res |-> "NotFound", out |-> <<>>]

RelUpdateNoDirty(rel, rec) ==
    LET i == Position(rel.records, rec.id, 1) IN
    IF i # 0
    THEN [rel |-> [rel EXCEPT !.records = [rel.records EXCEPT ![i] = rec]],
          res |-> "Ok", out |-> <<>>]
    ELSE [rel |-> rel, res |-> "NotFound", out |-> <<>>]

RelUpdateMovesToEnd(rel, rec) ==
    LET i == Position(rel.records, rec.id, 1) IN
    IF i # 0
    THEN [rel |-> [records |-> Append(RemoveAt(rel.records, i), rec),
                   is_dirty |-> TRUE],
          res |-> "Ok", out |-> <<>>]
    ELSE [rel |-> rel, res |-> "NotFound", out |-> <<>>]

RelUpdate(rel, rec) ==
    LET i == Position(rel.records, rec.id, 1) IN
    IF i # 0
    THEN [rel |-> [records |-> [rel.records EXCEPT ![i] = rec], is_dirty |-> TRUE],
          res |-> "Ok", out |-> <<>>]
    ELSE [rel |-> rel, res |-> "NotFound", out |-> <<>>]

RelUpsertAlwaysAppends(rel, rec) ==
    [rel |-> [records |-> Append(rel.records, rec), is_dirty |-> TRUE],
     res |-> "Ok", out |-> <<>>]

RelUpsert(rel, rec) ==
    LET i == Position(rel.records, rec.id, 1) IN
    [rel |-> [records |-> IF i # 0 THEN [rel.records EXCEPT ![i] = rec]
                          ELSE Append(rel.records, rec),
              is_dirty |-> TRUE],
     res |-> "Ok", out |-> <<>>]

RelDeleteNoDirty(rel, id) ==
    LET i == Position(rel.records, id, 1) IN
    IF i # 0
    THEN [rel |-> [records |-> RemoveAt(rel.records, i), is_dirty |-> rel.is_dirty],
          res |-> "Ok", out |-> <<rel.records[i]>>]
    ELSE [rel |-> rel, res |-> "Ok", out |-> <<>>]

RelDeleteSwapRemove(rel, id) ==
    LET i == Position(rel.records, id, 1)
        n == Len(rel.records) IN
    IF i # 0
    THEN [rel |-> [records |-> IF i = n THEN SubSeq(rel.records, 1, n - 1)
                               ELSE SubSeq([rel.records EXCEPT ![i] = rel.records[n]],
                                           1, n - 1),
                   is_dirty |-> TRUE],
          res |-> "Ok", out |-> <<rel.records[i]>>]
    ELSE [rel |-> rel, res |-> "Ok", out |-> <<>>]

RelDelete(rel, id) ==
    LET i == Position(rel.records, id, 1) IN
    IF i # 0
    THEN [rel |-> [records |-> RemoveAt(rel.records, i), is_dirty |-> TRUE],
          res |-> "Ok", out |-> <<rel.records[i]>>]
    ELSE [rel |-> rel, res |-> "Ok", out |-> <<>>]

RelDeleteAllByAlwaysDirty(rel, pred) ==
    LET deleted == Filter(rel.records, pred)
        retained == Filter(rel.records,
                           {rel.records[i].val : i \in 1..Len(rel.records)} \ pred) IN
    [rel |-> [records |-> retained, is_dirty |-> TRUE],
     res |-> "Ok", out |-> deleted]

RelDeleteAllBy(rel, pred) ==
    LET deleted == Filter(rel.records, pred)
        retained == Filter(rel.records,
                           {rel.records[i].val : i \in 1..Len(rel.records)} \ pred) IN
    [rel |-> [records |-> retained,
              is_dirty |-> rel.is_dirty \/ deleted # <<>>],
     res |-> "Ok", out |-> deleted]

RelGet(rel, id) ==
    LET i == Position(rel.records, id, 1) IN
    IF i # 0 THEN <<rel.records[i]>> ELSE <<>>

RelGetAll(rel) == rel.records

RelGetAllByFirstOnly(rel, pred) ==
    LET found == Filter(rel.records, pred) IN
    IF found = <<>> THEN <<>> ELSE <<Head(found)>>

RelGetAllBy(rel, pred) == Filter(rel.records, pred)

RelCount(rel) == Len(rel.records)

SerializeWithMeta(rel) == <<rel.is_dirty>> \o rel.records

\* Serialize for Relation: the records alone, the meta is left out.
Serialize(rel) == rel.records

DeserializeReversed(bytes) ==
    [records |-> [i \in 1..Len(bytes) |-> bytes[Len(bytes) + 1 - i]],
     is_dirty |-> FALSE]

DeserializeDirty(bytes) == [records |-> bytes, is_dirty |-> TRUE]

\* Deserialize for Relation: the records, with RelationMeta::default().
Deserialize(bytes) == [records |-> bytes, is_dirty |-> FALSE]

\* ------------------------------------------------------------- state
StateIsDirtyFirstOnly(st) == st[Rels[1]].is_dirty

\* State::is_dirty: the OR of the relations' flags.
StateIsDirty(st) == \E r \in RelNames : st[r].is_dirty

\* State::reset_dirty: every relation's flag is reset.
StateResetDirty(st) == [r \in RelNames |-> [st[r] EXCEPT !.is_dirty = FALSE]]

\* ------------------------------------------------------------- adapters
\* The storage holds, per relation, its serialized records: the sections of the
\* one file of a unified adapter, or the files of a partitioned one. A write goes
\* through safe_write (temporary file, then rename): it replaces the target or,
\* when it fails, leaves it as it was.
\* failAt says which write the storage refuses: 0 none; for a unified adapter 1 is
\* the write of the file, for a partitioned one i is the write of relation Rels[i].
FailAts(adapter) == IF adapter = "Unified" THEN 0..1 ELSE 0..Len(Rels)

UnifiedWriteFirstOnly(st, dk, failAt) ==
    IF failAt # 0
    THEN [disk |-> dk, res |-> "Io", written |-> {}, asked |-> <<>>]
    ELSE [disk |-> [dk EXCEPT ![Rels[1]] = Serialize(st[Rels[1]])], res |-> "Ok",
          written |-> RelNames, asked |-> <<>>]

\* UnifiedAdapter::write_state (JsonAdapter): the whole state in one write.
UnifiedWriteState(st, dk, failAt) ==
    IF failAt # 0
    THEN [disk |-> dk, res |-> "Io", written |-> {}, asked |-> <<>>]
    ELSE [disk |-> [r \in RelNames |-> Serialize(st[r])], res |-> "Ok",
          written |-> RelNames, asked |-> <<>>]

RECURSIVE WriteWithPartitionedAdapterFrom(_, _, _, _)
\* State::write_with_partitioned_adapter, from relation i on: every dirty relation
\* is written, in declaration order, and the first failure ends it.
\* asked: the relations write_relation was called for, in the order of the calls.
WriteWithPartitionedAdapterFrom(st, dk, failAt, i) ==
    IF i > Len(Rels) THEN [disk |-> dk, res |-> "Ok", written |-> {}, asked |-> <<>>]
    ELSE IF ~st[Rels[i]].is_dirty
         THEN WriteWithPartitionedAdapterFrom(st, dk, failAt, i + 1)
    ELSE IF failAt = i
         THEN [disk |-> dk, res |-> "Io", written |-> {}, asked |-> <<Rels[i]>>]
    ELSE LET rest == WriteWithPartitionedAdapterFrom(
                         st, [dk EXCEPT ![Rels[i]] = Serialize(st[Rels[i]])],
                         failAt, i + 1)
         IN [rest EXCEPT !.written = @ \cup {Rels[i]},
                         !.asked = <<Rels[i]>> \o @]

WriteEveryRelation(st, dk, failAt) ==
    IF failAt # 0
    THEN [disk |-> dk, res |-> "Io", written |-> {}, asked |-> <<Rels[1]>>]
    ELSE [disk |-> [r \in RelNames |-> Serialize(st[r])], res |-> "Ok",
          written |-> RelNames, asked |-> Rels]

WriteWithPartitionedAdapter(st, dk, failAt) ==
    WriteWithPartitionedAdapterFrom(st, dk, failAt, 1)

\* Adapter::write_state: through Unified<UA> or Partitioned<PA>.
AdapterWriteState(adapter, st, dk, failAt) ==
    IF adapter = "Unified" THEN UnifiedWriteState(st, dk, failAt)
    ELSE WriteWithPartitionedAdapter(st, dk, failAt)

\* Adapter::load_state on a location this store wrote: the file (or every
\* relation's file) is read and deserialized.
AdapterLoadState(adapter, dk) == [r \in RelNames |-> Deserialize(dk[r])]

\* ------------------------------------------------------------- modes
\* JoydbMode, with the adapter's kind and the SyncPolicy of a persistent store.
Policies == {"Instant", "Periodic", "Manual"}
Adapters == {"Unified", "Partitioned"}
InMemory == [tag |-> "InMemory", adapter |-> "-", sync_policy |-> "-"]
Modes ==
    {[tag |-> "Persistent", adapter |-> a, sync_policy |-> p] :
        a \in Adapters, p \in Policies} \cup {InMemory}

\* ------------------------------------------------------------- location
\* What a path holds: nothing, a file that decodes (its content is in disk), a
\* file that does not decode, or a directory. loc is the adapter's path; ent, for
\* a partitioned adapter, the path of each relation's file under it.
Kinds == {"missing", "file", "bad", "dir"}
NoEnts == [r \in RelNames |-> "missing"]
FsOf(adapter) ==
    IF adapter = "Unified" THEN [loc : Kinds, ent : {NoEnts}]
    ELSE [loc : {"missing", "file", "dir"}, ent : [RelNames -> Kinds]]

\* The location as a store leaves it: the file of a unified adapter, the
\* directory of a partitioned one with a file per relation.
ValidFs(m) ==
    IF m.tag # "Persistent" THEN [loc |-> "missing", ent |-> NoEnts]
    ELSE IF m.adapter = "Unified" THEN [loc |-> "file", ent |-> NoEnts]
    ELSE [loc |-> "dir", ent |-> [r \in RelNames |-> "file"]]

\* The writes an open can make, which the storage may refuse: for a unified
\* adapter 1 is the write of the file; for a partitioned one i is the write of the
\* file of Rels[i] and Len(Rels) + 1 the creation of the directory. 0: none.
LoadFailAts(adapter) == IF adapter = "Unified" THEN 0..1 ELSE 0..(Len(Rels) + 1)

\* JsonAdapter::load_state: a missing file is created with the default state, a
\* path that is no file is refused, a file is read and decoded.
UnifiedLoadStateNoCreate(f, dk, failAt) ==
    IF f.loc = "missing"
    THEN [fs |-> f, disk |-> dk, res |-> "Ok", state |-> DefaultState]
    ELSE IF f.loc = "dir"
    THEN [fs |-> f, disk |-> dk, res |-> "NotFile", state |-> DefaultState]
    ELSE IF f.loc = "bad"
    THEN [fs |-> f, disk |-> dk, res |-> "Deserialize", state |-> DefaultState]
    ELSE [fs |-> f, disk |-> dk, res |-> "Ok",
          state |-> [r \in RelNames |-> Deserialize(dk[r])]]

UnifiedLoadState(f, dk, failAt) ==
    IF f.loc = "missing"
    THEN IF failAt # 0
         THEN [fs |-> f, disk |-> dk, res |-> "Io", state |-> DefaultState]
         ELSE [fs |-> [f EXCEPT !.loc = "file"],
               disk |-> [r \in RelNames |-> Serialize(DefaultState[r])],
               res |-> "Ok", state |-> DefaultState]
    ELSE IF f.loc = "dir"
    THEN [fs |-> f, disk |-> dk, res |-> "NotFile", state |-> DefaultState]
    ELSE IF f.loc = "bad"
    THEN [fs |-> f, disk |-> dk, res |-> "Deserialize", state |-> DefaultState]
    ELSE [fs |-> f, disk |-> dk, res |-> "Ok",
          state |-> [r \in RelNames |-> Deserialize(dk[r])]]

RECURSIVE LoadWithPartitionedAdapterFrom(_, _, _, _, _)
\* State::load_with_partitioned_adapter, from relation i on, st being the state
\* loaded so far: load_relation creates a missing file with the empty relation,
\* refuses a path that is no file, reads and decodes a file; the first error ends
\* the load.
LoadWithPartitionedAdapterFrom(f, dk, failAt, st, i) ==
    IF i > Len(Rels) THEN [fs |-> f, disk |-> dk, res |-> "Ok", state |-> st]
    ELSE LET r == Rels[i] IN
         IF f.ent[r] = "missing"
         THEN IF failAt = i
              THEN [fs |-> f, disk |-> dk, res |-> "Io", state |-> DefaultState]
              ELSE LoadWithPartitionedAdapterFrom(
                       [f EXCEPT !.ent[r] = "file"],
                       [dk EXCEPT ![r] = Serialize(NewRelation)],
                       failAt, [st EXCEPT ![r] = NewRelation], i + 1)
         ELSE IF f.ent[r] = "dir"
         THEN [fs |-> f, disk |-> dk, res |-> "NotFile", state |-> DefaultState]
         ELSE IF f.ent[r] = "bad"
         THEN [fs |-> f, disk |-> dk, res |-> "Deserialize", state |-> DefaultState]
         ELSE LoadWithPartitionedAdapterFrom(
                  f, dk, failAt, [st EXCEPT ![r] = Deserialize(dk[r])], i + 1)

PartitionedLoadStateAllOrNothing(f, dk, failAt) ==
    IF f.loc \in {"file", "bad"}
    THEN [fs |-> f, disk |-> dk, res |-> "NotDirectory", state |-> DefaultState]
    ELSE IF f.loc = "missing" /\ failAt = Len(Rels) + 1
    THEN [fs |-> f, disk |-> dk, res |-> "Io", state |-> DefaultState]
    ELSE LET l == LoadWithPartitionedAdapterFrom(
                      [f EXCEPT !.loc = "dir"], dk, failAt, DefaultState, 1)
         IN IF l.res = "Ok" THEN l
            ELSE [fs |-> f, disk |-> dk, res |-> l.res, state |-> DefaultState]

PartitionedLoadStateNoKindCheck(f, dk, failAt) ==
    IF f.loc = "missing" /\ failAt = Len(Rels) + 1
    THEN [fs |-> f, disk |-> dk, res |-> "Io", state |-> DefaultState]
    ELSE LoadWithPartitionedAdapterFrom(
             [f EXCEPT !.loc = "dir"], dk, failAt, DefaultState, 1)

\* JsonPartitionedAdapter::load_state: a path that is no directory is refused, a
\* missing directory is created, then the relations are loaded.
PartitionedLoadState(f, dk, failAt) ==
    IF f.loc \in {"file", "bad"}
    THEN [fs |-> f, disk |-> dk, res |-> "NotDirectory", state |-> DefaultState]
    ELSE IF f.loc = "missing" /\ failAt = Len(Rels) + 1
    THEN [fs |-> f, disk |-> dk, res |-> "Io", state |-> DefaultState]
    ELSE LoadWithPartitionedAdapterFrom(
             [f EXCEPT !.loc = "dir"], dk, failAt, DefaultState, 1)

\* Adapter::load_state: through Unified<UA> or Partitioned<PA>.
LoadState(adapter, f, dk, failAt) ==
    IF adapter = "Unified" THEN UnifiedLoadState(f, dk, failAt)
    ELSE PartitionedLoadState(f, dk, failAt)

\* JoydbMode::is_instant_sync_policy
IsInstantSyncPolicy(m) == m.tag = "Persistent" /\ m.sync_policy = "Instant"

\* ------------------------------------------------------------- inner store
\* InnerJoydb::write_state: the adapter's write, or nothing in memory mode.
\* called: whether an adapter's write_state was called.
InnerWriteStateAnyMode(m, st, dk, failAt) ==
    [called |-> TRUE] @@ AdapterWriteState(m.adapter, st, dk, failAt)

InnerWriteState(m, st, dk, failAt) ==
    IF m.tag = "Persistent"
    THEN [called |-> TRUE] @@ AdapterWriteState(m.adapter, st, dk, failAt)
    ELSE [called |-> FALSE, disk |-> dk, res |-> "Ok", written |-> {},
          asked |-> <<>>]

InnerFlushResetOnFailure(m, st, dk, failAt) ==
    IF StateIsDirty(st)
    THEN LET w == InnerWriteState(m, st, dk, failAt) IN
         [state |-> StateResetDirty(st), disk |-> w.disk, res |-> w.res,
          called |-> w.called, written |-> w.written, asked |-> w.asked]
    ELSE [state |-> st, disk |-> dk, res |-> "Ok", called |-> FALSE, written |-> {},
          asked |-> <<>>]

InnerFlushResetsWritten(m, st, dk, failAt) ==
    IF StateIsDirty(st)
    THEN LET w == InnerWriteState(m, st, dk, failAt) IN
         [state |-> IF w.res = "Ok" THEN StateResetDirty(st)
                    ELSE [r \in RelNames |->
                             IF r \in w.written
                             THEN [st[r] EXCEPT !.is_dirty = FALSE] ELSE st[r]],
          disk |-> w.disk, res |-> w.res, called |-> w.called,
          written |-> w.written, asked |-> w.asked]
    ELSE [state |-> st, disk |-> dk, res |-> "Ok", called |-> FALSE, written |-> {},
          asked |-> <<>>]

InnerFlushAlwaysWrites(m, st, dk, failAt) ==
    LET w == InnerWriteState(m, st, dk, failAt) IN
    [state |-> IF w.res = "Ok" THEN StateResetDirty(st) ELSE st,
     disk |-> w.disk, res |-> w.res, called |-> w.called, written |-> w.written,
     asked |-> w.asked]

\* InnerJoydb::flush: a dirty state is written and, when the write succeeded,
\* its flags are reset; a failed write returns before the reset.
InnerFlush(m, st, dk, failAt) ==
    IF StateIsDirty(st)
    THEN LET w == InnerWriteState(m, st, dk, failAt) IN
         [state |-> IF w.res = "Ok" THEN StateResetDirty(st) ELSE st,
          disk |-> w.disk, res |-> w.res, called |-> w.called,
          written |-> w.written, asked |-> w.asked]
    ELSE [state |-> st, disk |-> dk, res |-> "Ok", called |-> FALSE, written |-> {},
          asked |-> <<>>]

\* The inputs of a flush: which write fails, where it matters.
FlushFailAts(m) == IF m.tag = "Persistent" THEN FailAts(m.adapter) ELSE {0}

\* ------------------------------------------------------------- files
\* The bytes write_to_file hands to safe_write: a serialized state or relation,
\* MaxBytes long. A file holds a sequence of bytes, all of them or the first of
\* them; synced tells whether they would survive a crash.
MaxBytes == 2
Bytes == {1, 2}
FileContents == [1..MaxBytes -> Bytes]
Absent == [exists |-> FALSE, bytes |-> <<>>, synced |-> TRUE]
FileOf(bytes, synced) == [exists |-> TRUE, bytes |-> bytes, synced |-> synced]
\* The extension of the target path; Path::with_extension("tmp") replaces it, so
\* the temporary path of a target whose extension is tmp is the target itself.
Extensions == {"json", "tmp"}
\* JsonAdapter writes the path it was given, JsonPartitionedAdapter the path
\* relation_file_path builds, which ends in .json.
ExtensionsOf(adapter) == IF adapter = "Unified" THEN Extensions ELSE {"json"}
TempIsTarget(w) == w.ext = "tmp"
TempFile(w) == IF TempIsTarget(w) THEN w.target ELSE w.temp
WithTemp(w, f) ==
    IF TempIsTarget(w) THEN [w EXCEPT !.target = f] ELSE [w EXCEPT !.temp = f]
\* What a crash leaves of a file: bytes that were not synced may be lost from
\* some point on.
AfterCrash(f) ==
    IF ~f.exists \/ f.synced THEN {f}
    ELSE {FileOf(SubSeq(f.bytes, 1, n), TRUE) : n \in 0..Len(f.bytes)}
NoWrite == [ext |-> "json", target |-> Absent, temp |-> Absent, step |-> "idle",
            content |-> <<>>, old |-> Absent, res |-> "-", crashed |-> FALSE]

\* ------------------------------------------------------------- store
VARIABLES
    mode,       \* InnerJoydb.mode: the JoydbMode the store was opened with
    state,      \* InnerJoydb.state: per relation, its records and dirty flag
    disk,       \* the storage at the adapter's location: per relation, its records
    pc,         \* per thread (a handle's caller, the background thread): its position
    lock,       \* the holder of the Mutex around InnerJoydb, or Free
    poisoned,   \* whether the Mutex is poisoned (a holder panicked)
    op,         \* per thread: the call it is in, and what the call did so far
    unflushed,  \* history: per relation, mutated since the last flush that succeeded
    unwritten,  \* history: per relation, mutated since it was last persisted
    flushed,    \* history: the last flush() that returned Ok, if nothing mutated since
    dropFlush,  \* history: how the flush of InnerJoydb::drop ended
    fs,         \* what the location and, under it, each relation's path hold
    sw          \* safe_write: its target and temporary paths, and the call's position

vars == <<mode, state, disk, pc, lock, poisoned, op, unflushed, unwritten,
          flushed, dropFlush, fs, sw>>

\* The calls of a handle (Joydb::insert ... Joydb::flush) with their arguments.
NoCall == [kind |-> "none", rel |-> "-", id |-> 0, val |-> 0, pred |-> {}]
WriteKinds == {"insert", "update", "upsert"}
DeleteKinds == {"delete", "delete_all_by"}
ReadKinds == {"get", "get_all", "get_all_by", "count"}
Calls ==
    UNION {{[NoCall EXCEPT !.kind = k, !.rel = r, !.id = rec.id, !.val = rec.val] :
               k \in WriteKinds, rec \in RecordsOf(r)} : r \in RelNames}
    \cup {[NoCall EXCEPT !.kind = k, !.rel = r, !.id = i] :
        k \in {"delete", "get"}, r \in RelNames, i \in Ids}
    \cup {[NoCall EXCEPT !.kind = k, !.rel = r, !.pred = p] :
        k \in {"delete_all_by", "get_all_by"}, r \in RelNames, p \in Preds}
    \cup {[NoCall EXCEPT !.kind = k, !.rel = r] :
        k \in {"get_all", "count"}, r \in RelNames}
    \cup {[NoCall EXCEPT !.kind = "flush"]}

\* What a thread's call did so far: its result ("-": none yet), whether it changed
\* a relation, whether its flush called the adapter's write, what it read or
\* removed, the value of flushed its flush found, and its place among the calls
\* whose callers still hold their result (seq: 1 for the first to take the lock).
\* asked: for a flush of the inner store taken alone, the relations the adapter
\* was asked to write. found, failAt: for an open, what the location held and
\* which write the storage refused.
NoOp == [call |-> NoCall, res |-> "-", changed |-> FALSE, called |-> FALSE,
         out |-> <<>>, n |-> 0, second |-> "no", seq |-> 0, asked |-> <<>>,
         found |-> "-", failAt |-> 0]
BgCall == [NoCall EXCEPT !.kind = "periodic"]
DropCall == [NoCall EXCEPT !.kind = "drop"]

Rec(c) == [id |-> c.id, val |-> c.val]

\* The strong references to the Arc<Mutex<InnerJoydb>>: one per handle, and the
\* one the background thread holds from its upgrade to the end of its loop body.
BgHolds == pc[BG] \in {"upgraded", "locked", "ret", "unlocked", "unwinding"}
StrongCount ==
    Cardinality({h \in Handles : pc[h] \notin {"none", "dropping"}})
    + (IF BgHolds THEN 1 ELSE 0)
Dropping == \E t \in Threads : pc[t] = "dropping"
Dead == StrongCount = 0 /\ ~Dropping

\* The calls that returned and whose callers still hold the result.
Returned == Cardinality({h \in Handles : pc[h] = "done"})

AllFalse == [r \in RelNames |-> FALSE]

\* InnerJoydb::open_with_config: the adapter's load_state, or the default state.
OpenState(m, dk) ==
    IF m.tag = "Persistent" THEN AdapterLoadState(m.adapter, dk) ELSE DefaultState

\* Joydb::open_with_config on a location that does not exist yet: load_state
\* writes the default state and returns it; a Periodic policy spawns the thread.
Init ==
    /\ mode \in Modes
    /\ state = DefaultState
    /\ disk = [r \in RelNames |-> Serialize(NewRelation)]
    /\ pc = [t \in Threads |->
                IF t = 1 THEN "idle"
                ELSE IF t = BG /\ mode.sync_policy = "Periodic" THEN "sleep"
                ELSE "none"]
    /\ lock = Free
    /\ poisoned = FALSE
    /\ op = [t \in Threads |-> NoOp]
    /\ unflushed = AllFalse
    /\ unwritten = AllFalse
    /\ flushed = "no"
    /\ dropFlush = "none"
    /\ sw = NoWrite
    /\ fs = ValidFs(mode)

\* Joydb::open_with_config again, on the location the dropped store wrote.
Reopen ==
    /\ Dead
    /\ pc[BG] \in {"none", "exited", "panicked"}
    /\ state' = OpenState(mode, disk)
    /\ pc' = [t \in Threads |->
                IF t = 1 THEN "idle"
                ELSE IF t = BG /\ mode.sync_policy = "Periodic" THEN "sleep"
                ELSE "none"]
    /\ lock' = Free
    /\ poisoned' = FALSE
    /\ op' = [t \in Threads |-> NoOp]
    /\ unflushed' = AllFalse
    /\ unwritten' = AllFalse
    /\ flushed' = "no"
    /\ dropFlush' = "none"
    /\ UNCHANGED <<mode, fs, sw, disk>>

\* Clone for Joydb: one more handle on the same Arc.
Clone(h, h2) ==
    /\ pc[h] = "idle"
    /\ pc[h2] = "none"
    /\ pc' = [pc EXCEPT ![h2] = "idle"]
    /\ UNCHANGED <<mode, fs, sw, state, disk, lock, poisoned, op, unflushed, unwritten,
                   flushed, dropFlush>>

LockIsFreeAlways == TRUE

\* Mutex::lock returns only when no other thread holds the guard.
LockIsFree == lock = Free

\* self.inner.lock().unwrap(): the guard, or a panic when the Mutex is poisoned.
Acquire(h) ==
    /\ pc[h] \in {"idle", "called"}
    /\ LockIsFree
    /\ IF poisoned
       THEN /\ pc' = [pc EXCEPT ![h] = "panicked"]
            /\ op' = [op EXCEPT ![h] = [@ EXCEPT !.res = "Panic"]]
            /\ lock' = lock
       ELSE /\ pc' = [pc EXCEPT ![h] = "locked"]
            /\ op' = [op EXCEPT ![h] = [@ EXCEPT !.seq = Returned + 1]]
            /\ lock' = h
    /\ UNCHANGED <<mode, fs, sw, state, disk, poisoned, unflushed, unwritten, flushed,
                   dropFlush>>

\* The relation's method a call delegates to.
RelApply(rel, c) ==
    CASE c.kind = "insert" -> RelInsert(rel, Rec(c))
      [] c.kind = "update" -> RelUpdate(rel, Rec(c))
      [] c.kind = "upsert" -> RelUpsert(rel, Rec(c))
      [] c.kind = "delete" -> RelDelete(rel, c.id)
      [] c.kind = "delete_all_by" -> RelDeleteAllBy(rel, c.pred)
      [] c.kind = "get" -> [rel |-> rel, res |-> "Ok", out |-> RelGet(rel, c.id)]
      [] c.kind = "get_all" -> [rel |-> rel, res |-> "Ok", out |-> RelGetAll(rel)]
      [] c.kind = "get_all_by" ->
            [rel |-> rel, res |-> "Ok", out |-> RelGetAllBy(rel, c.pred)]
      [] c.kind = "count" -> [rel |-> rel, res |-> "Ok", out |-> <<>>]

\* Whether a call mutated its relation: insert, update and upsert that succeeded,
\* delete and delete_all_by that removed something.
Mutated(c, r) ==
    /\ r.res = "Ok"
    /\ \/ c.kind \in WriteKinds
       \/ c.kind \in DeleteKinds /\ r.out # <<>>

CallsAfterChangeAlways(c, r) == TRUE

CallsAfterChangeOnEveryOk(c, r) ==
    r.res = "Ok" /\ c.kind \in WriteKinds \cup DeleteKinds

CallsAfterChangeWritesOnly(c, r) == r.res = "Ok" /\ c.kind \in WriteKinds

\* Whether the inner method goes on to after_change: insert, update and upsert
\* after the relation's method succeeded (the ? operator), delete when it removed
\* a record, delete_all_by when it removed at least one.
CallsAfterChange(c, r) ==
    /\ r.res = "Ok"
    /\ \/ c.kind \in WriteKinds
       \/ c.kind = "delete" /\ r.out # <<>>
       \/ c.kind = "delete_all_by" /\ r.out # <<>>

\* The call a handle's caller makes: any, unless it was fixed beforehand.
CallsOf(h) == IF op[h].call = NoCall THEN Calls ELSE {op[h].call}

\* The inner method of a call, under the guard, up to its flush: InnerJoydb::insert
\* ... InnerJoydb::count, InnerJoydb::flush, and InnerJoydb::after_change's choice.
Apply(h) ==
    /\ pc[h] = "locked"
    /\ \E c \in CallsOf(h) :
       IF c.kind = "flush"
       THEN /\ pc' = [pc EXCEPT ![h] = "flush"]
            /\ op' = [op EXCEPT ![h] = [@ EXCEPT !.call = c]]
            /\ UNCHANGED <<state, unflushed, unwritten, flushed>>
       ELSE LET r == RelApply(state[c.rel], c)
                changed == Mutated(c, r)
                toFlush == CallsAfterChange(c, r) /\ IsInstantSyncPolicy(mode)
            IN /\ state' = [state EXCEPT ![c.rel] = r.rel]
               /\ pc' = [pc EXCEPT ![h] = IF toFlush THEN "flush" ELSE "ret"]
               /\ op' = [op EXCEPT ![h] =
                            [@ EXCEPT !.call = c,
                                      !.res = IF toFlush THEN "-" ELSE r.res,
                                      !.changed = changed,
                                      !.out = r.out,
                                      !.n = IF c.kind = "count"
                                            THEN RelCount(state[c.rel]) ELSE 0]]
               /\ unflushed' = IF changed THEN [unflushed EXCEPT ![c.rel] = TRUE]
                               ELSE unflushed
               /\ unwritten' = IF changed THEN [unwritten EXCEPT ![c.rel] = TRUE]
                               ELSE unwritten
               /\ flushed' = IF changed THEN "no" ELSE flushed
    /\ UNCHANGED <<mode, fs, sw, disk, lock, poisoned, dropFlush>>

\* The history after a flush that found the state dirty or not.
UnflushedAfter(f, wasDirty) ==
    IF f.res = "Ok" THEN AllFalse ELSE unflushed
UnwrittenAfter(f, wasDirty) ==
    [r \in RelNames |->
        IF r \in f.written \/ f.res = "Ok" THEN FALSE ELSE unwritten[r]]

\* InnerJoydb::flush under the guard: Joydb::flush, or after_change under Instant.
Flush(h) ==
    /\ pc[h] = "flush"
    /\ \E failAt \in FlushFailAts(mode) :
        LET f == InnerFlush(mode, state, disk, failAt)
            wasDirty == StateIsDirty(state)
        IN /\ state' = f.state
           /\ disk' = f.disk
           /\ op' = [op EXCEPT ![h] = [@ EXCEPT !.res = f.res, !.called = f.called,
                                                !.second = flushed]]
           /\ unflushed' = UnflushedAfter(f, wasDirty)
           /\ unwritten' = UnwrittenAfter(f, wasDirty)
           /\ flushed' = IF op[h].call.kind = "flush" /\ f.res = "Ok"
                         THEN (IF f.called THEN "wrote"
                               ELSE IF flushed = "no" THEN "noop" ELSE flushed)
                         ELSE flushed
    /\ pc' = [pc EXCEPT ![h] = "ret"]
    /\ UNCHANGED <<mode, fs, sw, lock, poisoned, dropFlush>>

\* The call returns: the guard is dropped at the end of the statement (a call
\* that panicked on the poisoned Mutex never held it).
Release(h) ==
    /\ pc[h] \in {"ret", "panicked"}
    /\ lock' = IF pc[h] = "ret" THEN Free ELSE lock
    /\ pc' = [pc EXCEPT ![h] = "idle"]
    /\ op' = [op EXCEPT ![h] = NoOp]
    /\ UNCHANGED <<mode, fs, sw, state, disk, poisoned, unflushed, unwritten, flushed,
                   dropFlush>>

IsLastStrongAlways == TRUE

\* Arc's drop: whoever releases the last strong reference drops the InnerJoydb.
IsLastStrong == StrongCount = 1

\* A handle is dropped; the last one goes on to InnerJoydb::drop.
DropHandle(h) ==
    /\ pc[h] = "idle"
    /\ pc' = [pc EXCEPT ![h] = IF IsLastStrong THEN "dropping" ELSE "none"]
    /\ UNCHANGED <<mode, fs, sw, state, disk, lock, poisoned, op, unflushed, unwritten,
                   flushed, dropFlush>>

DropFlushSkipped(m, st, dk, failAt) ==
    [state |-> st, disk |-> dk, res |-> "Ok", called |-> FALSE, written |-> {},
     asked |-> <<>>]

\* Drop for InnerJoydb: self.flush(), its error printed and dropped.
InnerDrop(m, st, dk, failAt) == InnerFlush(m, st, dk, failAt)

\* InnerJoydb::drop on the thread that released the last strong reference.
DropFlush(t) ==
    /\ pc[t] = "dropping"
    /\ \E failAt \in FlushFailAts(mode) :
        LET f == InnerDrop(mode, state, disk, failAt)
            wasDirty == StateIsDirty(state)
        IN /\ state' = f.state
           /\ disk' = f.disk
           /\ unflushed' = UnflushedAfter(f, wasDirty)
           /\ unwritten' = UnwrittenAfter(f, wasDirty)
           /\ dropFlush' = IF f.res # "Ok" THEN "fail"
                           ELSE IF f.called THEN "wrote" ELSE "noop"
    /\ pc' = [pc EXCEPT ![t] = IF t # BG THEN "none"
                               ELSE IF op[BG].res = "Panic" THEN "panicked"
                               ELSE "sleep"]
    /\ op' = [op EXCEPT ![t] = [NoOp EXCEPT !.call = DropCall]]
    /\ UNCHANGED <<mode, fs, sw, lock, poisoned, flushed>>

\* ------------------------------------------------------------- background thread
UpgradeAlwaysSucceeds == TRUE

\* Weak::upgrade succeeds while a strong reference is left.
UpgradeSucceeds == StrongCount > 0

\* spawn_periodic_sync_thread: the sleep ends; the weak reference is upgraded, or
\* the loop breaks.
BgWake ==
    /\ pc[BG] = "sleep"
    /\ pc' = [pc EXCEPT ![BG] = IF UpgradeSucceeds THEN "upgraded" ELSE "exited"]
    /\ UNCHANGED <<mode, fs, sw, state, disk, lock, poisoned, op, unflushed, unwritten,
                   flushed, dropFlush>>

\* inner.lock().expect(..): the guard (only this thread ever poisons the Mutex,
\* and it ends when it does).
BgLock ==
    /\ pc[BG] = "upgraded"
    /\ LockIsFree
    /\ ~poisoned
    /\ lock' = BG
    /\ pc' = [pc EXCEPT ![BG] = "locked"]
    /\ op' = [op EXCEPT ![BG] = [NoOp EXCEPT !.call = BgCall]]
    /\ UNCHANGED <<mode, fs, sw, state, disk, poisoned, unflushed, unwritten, flushed,
                   dropFlush>>

\* .flush().expect(..) under the guard: a failed flush panics; the unwinding
\* drops the guard, which poisons the Mutex.
BgFlush ==
    /\ pc[BG] = "locked"
    /\ \E failAt \in FlushFailAts(mode) :
        LET f == InnerFlush(mode, state, disk, failAt)
            wasDirty == StateIsDirty(state)
        IN /\ state' = f.state
           /\ disk' = f.disk
           /\ unflushed' = UnflushedAfter(f, wasDirty)
           /\ unwritten' = UnwrittenAfter(f, wasDirty)
           /\ IF f.res = "Ok"
              THEN /\ op' = [op EXCEPT ![BG] = [@ EXCEPT !.res = "Ok",
                                                         !.called = f.called]]
                   /\ pc' = [pc EXCEPT ![BG] = "ret"]
                   /\ UNCHANGED <<lock, poisoned>>
              ELSE /\ op' = [op EXCEPT ![BG] = [@ EXCEPT !.res = "Panic",
                                                         !.called = f.called]]
                   /\ pc' = [pc EXCEPT ![BG] = "unwinding"]
                   /\ lock' = Free
                   /\ poisoned' = TRUE
    /\ UNCHANGED <<mode, fs, sw, flushed, dropFlush>>

\* The statement ends: the guard is dropped.
BgUnlock ==
    /\ pc[BG] = "ret"
    /\ lock' = Free
    /\ pc' = [pc EXCEPT ![BG] = "unlocked"]
    /\ UNCHANGED <<mode, fs, sw, state, disk, poisoned, op, unflushed, unwritten, flushed,
                   dropFlush>>

\* The upgraded Arc goes out of scope, at the end of the loop body or in the
\* unwinding: the thread sleeps again or has ended, unless it held the last
\* strong reference and drops the InnerJoydb first.
BgDropArc ==
    /\ pc[BG] \in {"unlocked", "unwinding"}
    /\ pc' = [pc EXCEPT ![BG] = IF IsLastStrong THEN "dropping"
                                ELSE IF pc[BG] = "unwinding" THEN "panicked"
                                ELSE "sleep"]
    /\ op' = [op EXCEPT ![BG] = IF IsLastStrong THEN @ ELSE NoOp]
    /\ UNCHANGED <<mode, fs, sw, state, disk, lock, poisoned, unflushed, unwritten,
                   flushed, dropFlush>>

BgNext == BgWake \/ BgLock \/ BgFlush \/ BgUnlock \/ BgDropArc \/ DropFlush(BG)

\* ------------------------------------------------------------- specification
Next ==
    \/ \E h \in Handles : Acquire(h)
    \/ \E h \in Handles : Apply(h)
    \/ \E h \in Handles : Flush(h)
    \/ \E h \in Handles : Release(h)
    \/ \E h, h2 \in Handles : Clone(h, h2)
    \/ \E h \in Handles : DropHandle(h)
    \/ \E t \in Threads : DropFlush(t)
    \/ BgWake
    \/ BgLock
    \/ BgFlush
    \/ BgUnlock
    \/ BgDropArc
    \/ Reopen

Spec == Init /\ [][Next]_vars

\* The background thread is scheduled: its sleep ends and it takes its steps.
FairSpec == Spec /\ WF_vars(BgNext)

\* ------------------------------------------------------------- calls that wait
\* The store with the start of a call apart from its lock: a caller enters a
\* Joydb method and then waits in self.inner.lock() until the Mutex is free.
Call(h) ==
    /\ pc[h] = "idle"
    /\ pc' = [pc EXCEPT ![h] = "called"]
    /\ UNCHANGED <<mode, fs, sw, state, disk, lock, poisoned, op, unflushed, unwritten,
                   flushed, dropFlush>>

\* self.inner.lock().unwrap() of a call that was entered.
LockCalled(h) == pc[h] = "called" /\ Acquire(h)

LiveNext ==
    \/ \E h \in Handles : Call(h)
    \/ \E h \in Handles : LockCalled(h)
    \/ \E h \in Handles : Apply(h)
    \/ \E h \in Handles : Flush(h)
    \/ \E h \in Handles : Release(h)
    \/ \E h, h2 \in Handles : Clone(h, h2)
    \/ \E h \in Handles : DropHandle(h)
    \/ \E t \in Threads : DropFlush(t)
    \/ BgWake
    \/ BgLock
    \/ BgFlush
    \/ BgUnlock
    \/ BgDropArc

\* Every thread is scheduled, every adapter write returns, and the Mutex is
\* fair: a thread that waits for it while it is free again and again gets it.
LiveFairness ==
    /\ \A h \in Handles :
          /\ SF_vars(LockCalled(h))
          /\ WF_vars(Apply(h))
          /\ WF_vars(Flush(h))
          /\ WF_vars(Release(h))
    /\ WF_vars(BgNext)
    /\ SF_vars(BgLock)

LiveSpec == Init /\ [][LiveNext]_vars /\ LiveFairness

\* ------------------------------------------------------------- racing inserts
\* Handles of one store, each about to call insert on a relation that is empty.
InsertCalls == {c \in Calls : c.kind = "insert"}

RaceInit ==
    /\ mode \in Modes
    /\ state = DefaultState
    /\ disk = [r \in RelNames |-> Serialize(NewRelation)]
    /\ pc = [t \in Threads |->
                IF t \in Handles THEN "called"
                ELSE IF mode.sync_policy = "Periodic" THEN "sleep"
                ELSE "none"]
    /\ lock = Free
    /\ poisoned = FALSE
    /\ op \in {o \in [Threads -> {NoOp} \cup {[NoOp EXCEPT !.call = c] : c \in InsertCalls}] :
                  /\ o[BG] = NoOp
                  /\ \A h \in Handles : o[h] # NoOp}
    /\ unflushed = AllFalse
    /\ unwritten = AllFalse
    /\ flushed = "no"
    /\ dropFlush = "none"
    /\ sw = NoWrite
    /\ fs = ValidFs(mode)

\* The call returns to its caller, which keeps the result; the guard is dropped.
Return(h) ==
    /\ pc[h] \in {"ret", "panicked"}
    /\ lock' = IF pc[h] = "ret" THEN Free ELSE lock
    /\ pc' = [pc EXCEPT ![h] = "done"]
    /\ UNCHANGED <<mode, fs, sw, state, disk, poisoned, op, unflushed, unwritten, flushed,
                   dropFlush>>

RaceNext ==
    \/ \E h \in Handles : Acquire(h)
    \/ \E h \in Handles : Apply(h)
    \/ \E h \in Handles : Flush(h)
    \/ \E h \in Handles : Return(h)
    \/ BgWake
    \/ BgLock
    \/ BgFlush
    \/ BgUnlock
    \/ BgDropArc

RaceSpec == RaceInit /\ [][RaceNext]_vars

\* ------------------------------------------------------------- one relation
\* A single Relation driven through its own methods, over more identifiers than
\* the store above uses: state[Rels[1]] is the relation, op[1] the last call.
MaxRelId == 3
RelIds == 1..MaxRelId
RelVals == {1, 2}
RelRecords == [id : RelIds, val : RelVals]
RelPreds == SUBSET RelVals
RelCalls ==
    {[NoCall EXCEPT !.kind = k, !.rel = Rels[1], !.id = rec.id, !.val = rec.val] :
        k \in WriteKinds, rec \in RelRecords}
    \cup {[NoCall EXCEPT !.kind = k, !.rel = Rels[1], !.id = i] :
        k \in {"delete", "get"}, i \in RelIds}
    \cup {[NoCall EXCEPT !.kind = k, !.rel = Rels[1], !.pred = p] :
        k \in {"delete_all_by", "get_all_by"}, p \in RelPreds}
    \cup {[NoCall EXCEPT !.kind = k, !.rel = Rels[1]] : k \in {"get_all", "count"}}

RelInit ==
    /\ mode = InMemory
    /\ state = DefaultState
    /\ disk = [r \in RelNames |-> Serialize(NewRelation)]
    /\ pc = [t \in Threads |-> "none"]
    /\ lock = Free
    /\ poisoned = FALSE
    /\ op = [t \in Threads |-> NoOp]
    /\ unflushed = AllFalse
    /\ unwritten = AllFalse
    /\ flushed = "no"
    /\ dropFlush = "none"
    /\ sw = NoWrite
    /\ fs = ValidFs(mode)

\* One method of Relation is called.
RelCall ==
    /\ \E c \in RelCalls :
        LET r == RelApply(state[Rels[1]], c)
        IN /\ state' = [state EXCEPT ![Rels[1]] = r.rel]
           /\ op' = [op EXCEPT ![1] =
                        [NoOp EXCEPT !.call = c, !.res = r.res, !.out = r.out,
                                     !.changed = (r.rel # state[Rels[1]]),
                                     !.n = IF c.kind = "count"
                                           THEN RelCount(state[Rels[1]]) ELSE 0]]
    /\ UNCHANGED <<mode, fs, sw, disk, pc, lock, poisoned, unflushed, unwritten, flushed,
                   dropFlush>>

\* The relation is serialized to storage and hydrated from what was written
\* (out: the serialized form).
RelReload ==
    /\ state' = [state EXCEPT ![Rels[1]] = Deserialize(Serialize(@))]
    /\ op' = [op EXCEPT ![1] =
                 [NoOp EXCEPT !.call = [NoCall EXCEPT !.kind = "reload"],
                              !.out = Serialize(state[Rels[1]])]]
    /\ UNCHANGED <<mode, fs, sw, disk, pc, lock, poisoned, unflushed, unwritten, flushed,
                   dropFlush>>

\* Relation::reset_dirty.
RelResetDirty ==
    /\ state' = [state EXCEPT ![Rels[1]] = [@ EXCEPT !.is_dirty = FALSE]]
    /\ op' = [op EXCEPT ![1] = [NoOp EXCEPT !.call = [NoCall EXCEPT !.kind = "reset_dirty"]]]
    /\ UNCHANGED <<mode, fs, sw, disk, pc, lock, poisoned, unflushed, unwritten, flushed,
                   dropFlush>>

RelNext == RelCall \/ RelReload \/ RelResetDirty

RelSpec == RelInit /\ [][RelNext]_vars

\* ------------------------------------------------------------- one inner store
\* An InnerJoydb driven through its own methods, one whole method at a time, with
\* no handle or thread around it: op[1] is the last call, and op[1].asked what
\* its flush asked the adapter to write.
StoreCalls == {c \in Calls : c.kind # "flush"}

FlushInit ==
    /\ mode \in Modes
    /\ state = DefaultState
    /\ disk = [r \in RelNames |-> Serialize(NewRelation)]
    /\ pc = [t \in Threads |-> "none"]
    /\ lock = Free
    /\ poisoned = FALSE
    /\ op = [t \in Threads |-> NoOp]
    /\ unflushed = AllFalse
    /\ unwritten = AllFalse
    /\ flushed = "no"
    /\ dropFlush = "none"
    /\ sw = NoWrite
    /\ fs = ValidFs(mode)

\* An InnerJoydb CRUD method: the relation's method and, when that succeeded and
\* changed something, after_change, which flushes under Instant.
InnerCallOf(c) ==
    /\ LET r == RelApply(state[c.rel], c)
            st == [state EXCEPT ![c.rel] = r.rel]
            toFlush == CallsAfterChange(c, r) /\ IsInstantSyncPolicy(mode)
        IN \E failAt \in IF toFlush THEN FlushFailAts(mode) ELSE {0} :
           LET f == InnerFlush(mode, st, disk, failAt) IN
           /\ state' = IF toFlush THEN f.state ELSE st
           /\ disk' = IF toFlush THEN f.disk ELSE disk
           /\ op' = [op EXCEPT ![1] =
                        [NoOp EXCEPT !.call = c,
                                     !.res = IF toFlush THEN f.res ELSE r.res,
                                     !.out = r.out,
                                     !.changed = Mutated(c, r),
                                     !.called = toFlush /\ f.called,
                                     !.asked = IF toFlush THEN f.asked ELSE <<>>,
                                     !.n = IF c.kind = "count"
                                           THEN RelCount(state[c.rel]) ELSE 0]]
    /\ UNCHANGED <<mode, fs, sw, pc, lock, poisoned, unflushed, unwritten, flushed,
                   dropFlush>>

\* InnerJoydb::flush.
InnerFlushCall ==
    /\ \E failAt \in FlushFailAts(mode) :
        LET f == InnerFlush(mode, state, disk, failAt)
        IN /\ state' = f.state
           /\ disk' = f.disk
           /\ op' = [op EXCEPT ![1] =
                        [NoOp EXCEPT !.call = [NoCall EXCEPT !.kind = "flush"],
                                     !.res = f.res, !.called = f.called,
                                     !.asked = f.asked]]
    /\ UNCHANGED <<mode, fs, sw, pc, lock, poisoned, unflushed, unwritten, flushed,
                   dropFlush>>

InnerCall == \E c \in StoreCalls : InnerCallOf(c)

FlushNext == InnerCall \/ InnerFlushCall

FlushSpec == FlushInit /\ [][FlushNext]_vars

\* ------------------------------------------------------------- opening
\* A location in any condition, which a store is opened on and dropped from
\* again: the path may hold nothing, a file or a directory, and under a directory
\* each relation's path may hold nothing, a file or a directory. disk[r] is the
\* content of the file (or of the section of the unified file) of relation r,
\* where there is one that decodes.
Contents(r) == {<<>>} \cup {<<rec>> : rec \in RecordsOf(r)}
HasContent(m, f, r) ==
    IF m.adapter = "Unified" THEN f.loc = "file"
    ELSE f.loc = "dir" /\ f.ent[r] = "file"

OpenInit ==
    /\ mode \in {m \in Modes : m.tag = "Persistent" /\ m.sync_policy = "Manual"}
    /\ fs \in FsOf(mode.adapter)
    /\ fs.loc # "dir" => fs.ent = NoEnts
    /\ disk \in [RelNames -> UNION {Contents(r) : r \in RelNames}]
    /\ \A r \in RelNames :
          /\ disk[r] \in Contents(r)
          /\ ~HasContent(mode, fs, r) => disk[r] = <<>>
    /\ state = DefaultState
    /\ pc = [t \in Threads |-> "none"]
    /\ lock = Free
    /\ poisoned = FALSE
    /\ op = [t \in Threads |-> NoOp]
    /\ unflushed = AllFalse
    /\ unwritten = AllFalse
    /\ flushed = "no"
    /\ dropFlush = "none"
    /\ sw = NoWrite

\* Joydb::open_with_config while no store is open on the location: the adapter's
\* load_state; an error leaves no store.
OpenStore ==
    /\ pc[1] = "none"
    /\ \E failAt \in LoadFailAts(mode.adapter) :
        LET l == LoadState(mode.adapter, fs, disk, failAt)
        IN /\ fs' = l.fs
           /\ disk' = l.disk
           /\ state' = IF l.res = "Ok" THEN l.state ELSE state
           /\ pc' = IF l.res = "Ok" THEN [pc EXCEPT ![1] = "idle"] ELSE pc
           /\ op' = [op EXCEPT ![1] =
                        [NoOp EXCEPT !.call = [NoCall EXCEPT !.kind = "open"],
                                     !.res = l.res, !.found = fs.loc,
                                     !.failAt = failAt]]
    /\ UNCHANGED <<mode, sw, lock, poisoned, unflushed, unwritten, flushed,
                   dropFlush>>

\* The store is dropped untouched: InnerJoydb::drop flushes a state that is not
\* dirty, which writes nothing.
CloseStore ==
    /\ pc[1] = "idle"
    /\ LET f == InnerDrop(mode, state, disk, 0)
       IN /\ state' = DefaultState
          /\ disk' = f.disk
    /\ pc' = [pc EXCEPT ![1] = "none"]
    /\ op' = [op EXCEPT ![1] = NoOp]
    /\ UNCHANGED <<mode, fs, sw, lock, poisoned, unflushed, unwritten, flushed,
                   dropFlush>>

OpenNext == OpenStore \/ CloseStore

OpenSpec == OpenInit /\ [][OpenNext]_vars

\* ------------------------------------------------------------- reopening
\* One handle on a persistent store whose first relation can hold two records,
\* in either order: calls, flushes, the drop of the store and the open of its
\* location again.
ReopenIds == {1, 2}
ReopenCalls ==
    {[NoCall EXCEPT !.kind = k, !.rel = Rels[1], !.id = i, !.val = 1] :
        k \in {"insert", "delete"}, i \in ReopenIds}
    \cup {[NoCall EXCEPT !.kind = k, !.rel = Rels[2], !.id = 1, !.val = 1] :
        k \in {"insert", "delete"}}

ReopenInit ==
    /\ mode \in {m \in Modes : m.tag = "Persistent"}
    /\ state = DefaultState
    /\ disk = [r \in RelNames |-> Serialize(NewRelation)]
    /\ pc = [t \in Threads |-> IF t = 1 THEN "idle" ELSE "none"]
    /\ lock = Free
    /\ poisoned = FALSE
    /\ op = [t \in Threads |-> NoOp]
    /\ unflushed = AllFalse
    /\ unwritten = AllFalse
    /\ flushed = "no"
    /\ dropFlush = "none"
    /\ sw = NoWrite
    /\ fs = ValidFs(mode)

ReopenCall == pc[1] = "idle" /\ \E c \in ReopenCalls : InnerCallOf(c)

ReopenFlush == pc[1] = "idle" /\ InnerFlushCall

\* The handle is dropped: InnerJoydb::drop flushes, and an error is only printed.
\* state keeps what the memory held when the store went.
DropStore ==
    /\ pc[1] = "idle"
    /\ \E failAt \in FlushFailAts(mode) :
        LET f == InnerDrop(mode, state, disk, failAt)
        IN /\ state' = f.state
           /\ disk' = f.disk
           /\ dropFlush' = IF f.res # "Ok" THEN "fail"
                           ELSE IF f.called THEN "wrote" ELSE "noop"
    /\ pc' = [pc EXCEPT ![1] = "none"]
    /\ op' = [op EXCEPT ![1] = [NoOp EXCEPT !.call = [NoCall EXCEPT !.kind = "drop"]]]
    /\ UNCHANGED <<mode, fs, sw, lock, poisoned, unflushed, unwritten, flushed>>

ReopenNext == ReopenCall \/ ReopenFlush \/ DropStore \/ OpenStore

ReopenSpec == ReopenInit /\ [][ReopenNext]_vars

\* ------------------------------------------------------------- safe_write
\* Calls of safe_write on one target path, step by step, with the errors the
\* storage can return and a crash of the process at any step.
SafeWriteInit ==
    /\ mode \in {m \in Modes : m.tag = "Persistent" /\ m.sync_policy = "Manual"}
    /\ state = DefaultState
    /\ disk = [r \in RelNames |-> Serialize(NewRelation)]
    /\ pc = [t \in Threads |-> "none"]
    /\ lock = Free
    /\ poisoned = FALSE
    /\ op = [t \in Threads |-> NoOp]
    /\ unflushed = AllFalse
    /\ unwritten = AllFalse
    /\ flushed = "no"
    /\ dropFlush = "none"
    /\ fs = ValidFs(mode)
    /\ \E e \in ExtensionsOf(mode.adapter) :
       \E t \in {Absent} \cup {FileOf(b, TRUE) : b \in FileContents} :
          sw = [NoWrite EXCEPT !.ext = e, !.target = t, !.old = t]

SwFrame == UNCHANGED <<mode, state, disk, pc, lock, poisoned, op, unflushed,
                       unwritten, flushed, dropFlush, fs>>

\* safe_write is called with the bytes to write (the process runs again if it
\* had crashed).
SwCall ==
    /\ sw.step = "idle"
    /\ \E c \in FileContents :
          sw' = [sw EXCEPT !.step = "start", !.content = c, !.old = sw.target,
                           !.res = "-", !.crashed = FALSE]
    /\ SwFrame

\* File::create(&temp_path): the file is created, or truncated if it exists.
SwCreate ==
    /\ sw.step = "start"
    /\ sw' = [WithTemp(sw, FileOf(<<>>, FALSE)) EXCEPT !.step = "created"]
    /\ SwFrame

\* write_all: one write of the loop puts the next bytes in the file.
SwWrite ==
    /\ sw.step = "created"
    /\ LET f == TempFile(sw)
           n == Len(f.bytes)
       IN \E k \in (n + 1)..Len(sw.content) :
             sw' = [WithTemp(sw, FileOf(SubSeq(sw.content, 1, k), FALSE))
                       EXCEPT !.step = IF k = Len(sw.content) THEN "written"
                                       ELSE "created"]
    /\ SwFrame

\* sync_all
SwSync ==
    /\ sw.step = "written"
    /\ sw' = [WithTemp(sw, [TempFile(sw) EXCEPT !.synced = TRUE])
                 EXCEPT !.step = "synced"]
    /\ SwFrame

\* fs::rename(&temp_path, target_path), and Ok(()).
SwRename ==
    /\ sw.step = "synced"
    /\ sw' = IF TempIsTarget(sw)
             THEN [sw EXCEPT !.step = "idle", !.res = "Ok"]
             ELSE [sw EXCEPT !.target = sw.temp, !.temp = Absent,
                             !.step = "idle", !.res = "Ok"]
    /\ SwFrame

\* The ? of a step: the storage refused it, and safe_write returns the error with
\* the files as they are.
SwError ==
    /\ sw.step \in {"start", "created", "written", "synced"}
    /\ sw' = [sw EXCEPT !.step = "idle", !.res = "Io"]
    /\ SwFrame

\* The process crashes inside the call.
SwCrash ==
    /\ sw.step \in {"start", "created", "written", "synced"}
    /\ \E t \in AfterCrash(sw.target) : \E tm \in AfterCrash(sw.temp) :
          sw' = [sw EXCEPT !.target = t, !.temp = tm, !.step = "idle",
                           !.res = "-", !.crashed = TRUE]
    /\ SwFrame

SafeWriteNext ==
    SwCall \/ SwCreate \/ SwWrite \/ SwSync \/ SwRename \/ SwError \/ SwCrash

SafeWriteSpec == SafeWriteInit /\ [][SafeWriteNext]_vars

\* ------------------------------------------------------------- claims
\* The storage holds exactly what is in memory.
Synced == disk = [r \in RelNames |-> Serialize(state[r])]

MutatingKinds == WriteKinds \cup DeleteKinds

\* C1: a flush whose adapter write fails (under Joydb::flush, under after_change
\* of the Instant policy, in the background thread, or in InnerJoydb::drop) leaves
\* every relation's records and dirty flag as they were before it.
FlushFailedStep ==
    \/ \E h \in Handles : pc[h] = "flush" /\ op'[h].res = "Io"
    \/ pc[BG] = "locked" /\ pc'[BG] = "unwinding"
    \/ \E t \in Threads : pc[t] = "dropping" /\ dropFlush' = "fail"
C1_FailedFlushKeepsState == [][FlushFailedStep => state' = state]_vars

\* A flush() that failed on a partitioned store, after one relation was written.
C1_Witness ==
    \E h \in Handles :
        /\ pc[h] = "ret" /\ op[h].call.kind = "flush" /\ op[h].res = "Io"
        /\ mode.adapter = "Partitioned"
        /\ \A r \in RelNames : state[r].is_dirty
        /\ disk[Rels[1]] # <<>>

\* C2: once the InnerJoydb of a persistent store is gone, under any sync policy,
\* its drop has run one flush; unless that flush failed, nothing mutated is left
\* unflushed and opening the location again loads the records held in memory.
C2_DropFlushes ==
    (Dead /\ mode.tag = "Persistent") =>
        /\ dropFlush # "none"
        /\ dropFlush # "fail" =>
              \A r \in RelNames :
                  /\ ~unflushed[r]
                  /\ OpenState(mode, disk)[r].records = state[r].records

\* A Manual store dropped with a record no flush() call had written.
C2_Witness ==
    /\ Dead
    /\ mode.sync_policy = "Manual"
    /\ dropFlush = "wrote"
    /\ state[Rels[1]].records # <<>>
    /\ flushed = "no"

\* C3 as stated: under Instant, any mutating call that returns Ok leaves the state
\* not dirty and the storage equal to the memory.
C3_Original ==
    \A h \in Handles :
        (/\ IsInstantSyncPolicy(mode)
         /\ pc[h] = "ret"
         /\ op[h].call.kind \in MutatingKinds
         /\ op[h].res = "Ok")
        => (~StateIsDirty(state) /\ Synced)

\* C3, amended: under Instant, a mutating call that changed its relation and
\* returns Ok leaves the state not dirty and the storage equal to the memory.
C3_InstantFlushesChanges ==
    \A h \in Handles :
        (/\ IsInstantSyncPolicy(mode)
         /\ pc[h] = "ret"
         /\ op[h].call.kind \in MutatingKinds
         /\ op[h].changed
         /\ op[h].res = "Ok")
        => (~StateIsDirty(state) /\ Synced)

\* A delete under Instant removed a record and returned Ok.
C3_Witness ==
    \E h \in Handles :
        /\ IsInstantSyncPolicy(mode)
        /\ pc[h] = "ret"
        /\ op[h].call.kind = "delete"
        /\ op[h].changed
        /\ op[h].res = "Ok"
        /\ op[h].called

\* C4 as stated: under Periodic, after a flush failed in the background thread,
\* no call through a handle panics.
BgFlushFailed == op[BG].res = "Panic" \/ pc[BG] = "panicked"
C4_HandlesSurviveBgFailure ==
    (mode.sync_policy = "Periodic" /\ BgFlushFailed) =>
        \A h \in Handles : pc[h] # "panicked"

\* C5 as stated: a relation is dirty iff it was mutated since it was last
\* persisted by a flush.
C5_Original == \A r \in RelNames : state[r].is_dirty <=> unwritten[r]

\* C5, amended: a relation is dirty iff it was mutated since the last flush that
\* succeeded as a whole (or since the open, if none did).
C5_DirtyIffUnflushed == \A r \in RelNames : state[r].is_dirty <=> unflushed[r]

\* A relation still dirty though a flush, failing later, had persisted it.
C5_Witness ==
    /\ state[Rels[1]].is_dirty
    /\ unflushed[Rels[1]]
    /\ ~unwritten[Rels[1]]

\* C6: a flush() that follows a successful flush(), with no mutation in between,
\* calls no adapter write and returns Ok; a flush() that returns Ok leaves the
\* state not dirty and the storage equal to the memory.
C6_SecondFlushWritesNothing ==
    \A h \in Handles :
        (mode.tag = "Persistent" /\ pc[h] = "ret" /\ op[h].call.kind = "flush") =>
            /\ op[h].second # "no" => (~op[h].called /\ op[h].res = "Ok")
            /\ op[h].res = "Ok" => (~StateIsDirty(state) /\ Synced)

\* The second of two flush() calls, the first of which wrote.
C6_Witness ==
    \E h \in Handles :
        /\ pc[h] = "ret" /\ op[h].call.kind = "flush"
        /\ op[h].second = "wrote" /\ ~op[h].called

\* C7: at most one thread is inside a call under the guard or inside the drop's
\* flush, and a thread inside a call holds the lock.
InCritical(t) == pc[t] \in {"locked", "flush", "ret", "dropping"}
C7_MutualExclusion ==
    /\ Cardinality({t \in Threads : InCritical(t)}) <= 1
    /\ \A t \in Threads : pc[t] \in {"locked", "flush", "ret"} => lock = t

\* A handle flushes while another handle and the background thread wait.
C7_Witness ==
    /\ pc[1] = "flush"
    /\ pc[2] = "idle"
    /\ pc[BG] = "upgraded"

\* C8 as stated: of two calls that inserted the same absent identifier into the
\* same relation and returned, the one that took the lock first returned Ok, the
\* other DuplicatedId, and the relation holds one record with that identifier,
\* the one of the first.
SameInsert(h1, h2) ==
    /\ h1 # h2
    /\ pc[h1] = "done" /\ pc[h2] = "done"
    /\ op[h1].call.rel = op[h2].call.rel
    /\ op[h1].call.id = op[h2].call.id
TookLock(h) == op[h].res # "Panic"
WithId(recs, id) == SelectSeq(recs, LAMBDA rec : rec.id = id)
HoldsOnly(h) ==
    WithId(state[op[h].call.rel].records, op[h].call.id) = <<Rec(op[h].call)>>
C8_Original ==
    \A h1, h2 \in Handles :
        SameInsert(h1, h2) =>
            \E w \in {h1, h2} : \E l \in {h1, h2} \ {w} :
                /\ TookLock(w) /\ TookLock(l) /\ op[w].seq < op[l].seq
                /\ op[w].res = "Ok"
                /\ op[l].res = "DuplicatedId"
                /\ HoldsOnly(w)

\* C8, amended: of the calls that inserted the same absent identifier into the
\* same relation and returned, the one that took the lock first added its record
\* and returned Ok, or under Instant the error of its flush; any other returned
\* DuplicatedId and added nothing; the relation holds one record with that
\* identifier, the one of the first. A call that found the Mutex poisoned by the
\* background thread panicked and added nothing.
FirstLocker(h) ==
    \A g \in Handles :
        (SameInsert(g, h) /\ TookLock(g)) => op[h].seq < op[g].seq
C8_FirstLockerWins ==
    \A h \in Handles :
        pc[h] = "done" =>
            IF ~TookLock(h)
            THEN ~op[h].changed /\ mode.sync_policy = "Periodic"
            ELSE IF FirstLocker(h)
            THEN /\ op[h].res \in {"Ok", "Io"}
                 /\ op[h].res = "Io" => (IsInstantSyncPolicy(mode) /\ op[h].called)
                 /\ op[h].changed
                 /\ HoldsOnly(h)
            ELSE /\ op[h].res = "DuplicatedId"
                 /\ ~op[h].changed

\* Two racing inserts of one identifier with different payloads have returned;
\* the second handle took the lock first.
C8_Witness ==
    /\ SameInsert(1, 2)
    /\ op[2].seq < op[1].seq
    /\ op[1].call.val # op[2].call.val
    /\ op[2].res = "Ok"
    /\ op[1].res = "DuplicatedId"

\* C9: a relation never holds two records with one identifier, and an insert
\* leaves every record that was there in place, adding at most its own at the
\* end.
UniqueIds(recs) ==
    \A i, j \in 1..Len(recs) : recs[i].id = recs[j].id => i = j
InsertStep == op'[1].call.kind = "insert" /\ op' # op
C9_UniqueNoOverwrite ==
    /\ [](UniqueIds(state[Rels[1]].records))
    /\ [][InsertStep =>
            LET old == state[Rels[1]].records
                new == state'[Rels[1]].records
            IN IF op'[1].res = "Ok"
               THEN new = Append(old, Rec(op'[1].call))
               ELSE /\ new = old
                    /\ op'[1].res = "DuplicatedId"
                    /\ \E i \in 1..Len(old) : old[i].id = op'[1].call.id]_vars

\* An insert of an identifier already held was refused, in a relation that holds
\* a record for every identifier and is not dirty.
C9_Witness ==
    /\ op[1].call.kind = "insert"
    /\ op[1].res = "DuplicatedId"
    /\ Len(state[Rels[1]].records) = MaxRelId
    /\ ~state[Rels[1]].is_dirty

\* C10: under Periodic, a wake-up that finds every handle dropped ends the
\* background thread; after InnerJoydb::drop ran the thread never holds the
\* store again; when every handle is dropped and the thread sleeps, the
\* InnerJoydb is dropped or being dropped; and once every handle is dropped the
\* thread ends.
AllHandlesDropped == \A h \in Handles : pc[h] \in {"none", "dropping"}
BgEnded == pc[BG] \in {"exited", "panicked"}
C10_BgThreadExits ==
    /\ [][(pc[BG] = "sleep" /\ AllHandlesDropped /\ pc'[BG] # "sleep")
              => pc'[BG] = "exited"]_vars
    /\ [](dropFlush # "none" => ~BgHolds)
    /\ []((AllHandlesDropped /\ pc[BG] = "sleep") => (Dropping \/ dropFlush # "none"))
    /\ ((mode.sync_policy = "Periodic" /\ AllHandlesDropped) ~> BgEnded)

\* The thread exited after the last handle was dropped and its flush wrote.
C10_Witness ==
    /\ mode.sync_policy = "Periodic"
    /\ AllHandlesDropped
    /\ pc[BG] = "exited"
    /\ dropFlush = "wrote"

\* C11 as stated: under Periodic, while a handle is alive the background thread
\* has not stopped.
HandleAlive == \E h \in Handles : pc[h] \notin {"none", "dropping"}
C11_BgThreadRunsWhileHandles ==
    (mode.sync_policy = "Periodic" /\ HandleAlive) => ~BgEnded

\* C12 as stated: under Manual or Periodic, a call other than flush() never calls
\* the adapter's write and ends with Ok, DuplicatedId or NotFound. (A call that
\* panics at the lock has not chosen its method yet: it stands for any of them.)
NonInstant == mode.tag = "Persistent" /\ mode.sync_policy \in {"Manual", "Periodic"}
C12_CrudNeverTouchesStorage ==
    \A h \in Handles :
        (NonInstant /\ pc[h] \in {"ret", "panicked"} /\ op[h].call.kind # "flush") =>
            /\ ~op[h].called
            /\ op[h].res \in {"Ok", "DuplicatedId", "NotFound"}

\* The part of C12 that holds: under Manual or Periodic, a call other than
\* flush() that took the lock never calls the adapter's write, leaves the storage
\* as it is and returns Ok, DuplicatedId or NotFound.
C12_LockedCrudNeverTouchesStorage ==
    /\ [](\A h \in Handles :
            (NonInstant /\ pc[h] = "ret" /\ op[h].call.kind # "flush") =>
                /\ ~op[h].called
                /\ op[h].res \in {"Ok", "DuplicatedId", "NotFound"})
    /\ [][(NonInstant /\ disk' # disk) =>
            \/ \E h \in Handles : pc[h] = "flush" /\ op[h].call.kind = "flush"
            \/ \E t \in Threads : pc[t] = "dropping"
            \/ mode.sync_policy = "Periodic" /\ pc[BG] = "locked"]_vars

\* The dirty relations of the state, in declaration order.
DirtyRels == SelectSeq(Rels, LAMBDA r : state[r].is_dirty)
InSeq(x, sq) == \E i \in 1..Len(sq) : sq[i] = x
PartitionedFlushStep ==
    /\ mode.adapter = "Partitioned"
    /\ op'[1].call.kind = "flush"
    /\ op' # op \/ disk' # disk \/ state' # state

\* C13 as stated: a flush with a Partitioned adapter calls write_relation for
\* exactly the dirty relations, and leaves the stored unit of every other one.
C13_Original ==
    [][PartitionedFlushStep =>
          /\ op'[1].asked = DirtyRels
          /\ \A r \in RelNames : ~state[r].is_dirty => disk'[r] = disk[r]]_vars

\* C13, amended: a flush with a Partitioned adapter calls write_relation only for
\* dirty relations, in declaration order and up to the first write that fails:
\* for all of them when it returns Ok, the failing one being the last asked when
\* it does not; a relation written holds its records in storage, and the stored
\* unit of a relation that is not dirty, or was not reached, is left as it was.
C13_WritesDirtyUpToFailure ==
    [][PartitionedFlushStep =>
          LET asked == op'[1].asked
              n == Len(asked)
              ok == op'[1].res = "Ok"
          IN /\ n <= Len(DirtyRels)
             /\ asked = SubSeq(DirtyRels, 1, n)
             /\ ok => asked = DirtyRels
             /\ ~ok => n >= 1
             /\ \A i \in 1..n :
                   IF ok \/ i < n
                   THEN disk'[asked[i]] = Serialize(state[asked[i]])
                   ELSE disk'[asked[i]] = disk[asked[i]]
             /\ \A r \in RelNames : ~InSeq(r, asked) => disk'[r] = disk[r]]_vars

\* A flush wrote the second relation alone while the first, not dirty, holds a
\* record.
C13_Witness ==
    /\ mode.adapter = "Partitioned"
    /\ op[1].call.kind = "flush"
    /\ op[1].res = "Ok"
    /\ op[1].asked = <<Rels[2]>>
    /\ state[Rels[1]].records # <<>>
    /\ disk[Rels[2]] # <<>>

\* What a read after the call finds of the call's mutation.
MutationVisible(c) ==
    CASE c.kind \in WriteKinds -> RelGet(state[c.rel], c.id) = <<Rec(c)>>
      [] c.kind = "delete" -> RelGet(state[c.rel], c.id) = <<>>
      [] c.kind = "delete_all_by" -> RelGetAllBy(state[c.rel], c.pred) = <<>>
      [] OTHER -> TRUE

\* C14: under Instant, a mutating call that changed its relation returns Ok or
\* the error of its flush; when it returns the error, the adapter's write was
\* called, the mutation is in memory, and the relation is dirty and counted as
\* not flushed.
C14_FailedInstantFlushKeepsMutation ==
    \A h \in Handles :
        (/\ IsInstantSyncPolicy(mode)
         /\ pc[h] = "ret"
         /\ op[h].call.kind \in MutatingKinds
         /\ op[h].changed)
        => /\ op[h].res \in {"Ok", "Io"}
           /\ op[h].res = "Io" =>
                 /\ op[h].called
                 /\ MutationVisible(op[h].call)
                 /\ state[op[h].call.rel].is_dirty
                 /\ unflushed[op[h].call.rel]

\* An update under Instant returned the storage error and its record is read.
C14_Witness ==
    \E h \in Handles :
        /\ IsInstantSyncPolicy(mode)
        /\ pc[h] = "ret"
        /\ op[h].call.kind = "update"
        /\ op[h].res = "Io"
        /\ RelGet(state[op[h].call.rel], op[h].call.id) = <<Rec(op[h].call)>>
        /\ disk[op[h].call.rel] # Serialize(state[op[h].call.rel])

\* A step that is a call of the given kind on the inner store.
InnerCallStep(kind) ==
    /\ op'[1].call.kind = kind
    /\ op' # op \/ state' # state \/ disk' # disk
Held(c) == RelGet(state[c.rel], c.id)

\* C15: an insert of an identifier the relation holds returns DuplicatedId and
\* leaves every relation's records and dirty flag as they were; no adapter write
\* is called and the storage stays as it was, under every policy.
C15_DuplicateInsertNoEffect ==
    [][(InnerCallStep("insert") /\ Held(op'[1].call) # <<>>) =>
          /\ op'[1].res = "DuplicatedId"
          /\ state' = state
          /\ disk' = disk
          /\ ~op'[1].called
          /\ op'[1].asked = <<>>]_vars

\* Under Instant, an insert of a held identifier with another payload was
\* refused while the state is dirty from a failed flush; the held record stands.
C15_Witness ==
    /\ IsInstantSyncPolicy(mode)
    /\ op[1].call.kind = "insert"
    /\ op[1].res = "DuplicatedId"
    /\ StateIsDirty(state)
    /\ Held(op[1].call) # <<>>
    /\ Held(op[1].call) # <<Rec(op[1].call)>>

\* C15 on a relation that holds several records: an insert of a held identifier
\* returns DuplicatedId and leaves the records, their order and the dirty flag.
C15_RelationUnchanged ==
    [][(InsertStep /\ Held(op'[1].call) # <<>>) =>
          /\ op'[1].res = "DuplicatedId"
          /\ state' = state]_vars

\* C16: an update of an identifier the relation does not hold returns NotFound
\* and leaves every relation's records and dirty flag as they were; no adapter
\* write is called and the storage stays as it was, under every policy.
C16_UpdateAbsentNoEffect ==
    [][(InnerCallStep("update") /\ Held(op'[1].call) = <<>>) =>
          /\ op'[1].res = "NotFound"
          /\ state' = state
          /\ disk' = disk
          /\ ~op'[1].called
          /\ op'[1].asked = <<>>]_vars

\* Under Instant, an update on an empty relation was refused while the other
\* relation is dirty from a failed flush.
C16_Witness ==
    /\ IsInstantSyncPolicy(mode)
    /\ op[1].call.kind = "update"
    /\ op[1].res = "NotFound"
    /\ state[op[1].call.rel] = NewRelation
    /\ StateIsDirty(state)

\* C16 on a relation that holds several records: an update of an identifier not
\* held returns NotFound and leaves the records, their order and the dirty flag.
C16_RelationUnchanged ==
    [][(op'[1].call.kind = "update" /\ op' # op /\ Held(op'[1].call) = <<>>) =>
          /\ op'[1].res = "NotFound"
          /\ state' = state]_vars

\* A step that is an open of the location.
OpenStep == pc[1] = "none" /\ op'[1].call.kind = "open" /\ op'[1] # op[1]
EmptyDisk == [r \in RelNames |-> Serialize(NewRelation)]

WrongKind ==
    IF mode.adapter = "Unified" THEN fs.loc = "dir" ELSE fs.loc \in {"file", "bad"}
C18_OpenWrongKindRefused ==
    [][(OpenStep /\ WrongKind) =>
          /\ op'[1].res = IF mode.adapter = "Unified" THEN "NotFile" ELSE "NotDirectory"
          /\ fs' = fs
          /\ disk' = disk
          /\ pc' = pc
          /\ state' = state]_vars

\* A partitioned open of a path that holds a file was refused.
C18_Witness ==
    /\ mode.adapter = "Partitioned"
    /\ op[1].call.kind = "open"
    /\ op[1].res = "NotDirectory"
    /\ op[1].found = "file"
    /\ fs.loc = "file"
    /\ pc[1] = "none"

\* The state a store holds after its memory was written: the same records in
\* the same order, no relation dirty.
Clean(st) == [r \in RelNames |-> [records |-> st[r].records, is_dirty |-> FALSE]]
FlushedOkStep ==
    /\ pc[1] = "idle"
    /\ op'[1].res = "Ok"
    /\ op'[1].call.kind = "flush" \/ op'[1].called

\* C19: right after a flush that returned Ok (a flush() call, or the flush of
\* after_change under Instant), an open of the location would return Ok and load,
\* for every relation, the records held in memory at that flush in the same
\* order, none dirty; and an open that follows a drop whose flush succeeded
\* returns Ok and loads exactly that from what the dropped store held.
C19_ReopenRoundTrip ==
    [][/\ FlushedOkStep =>
             LET l == LoadState(mode.adapter, fs', disk', 0)
             IN /\ l.res = "Ok"
                /\ l.state = Clean(state')
                /\ \A r \in RelNames : state'[r].records = state[r].records
                                          \/ op'[1].call.kind # "flush"
       /\ (OpenStep /\ dropFlush \in {"wrote", "noop"}) =>
             /\ op'[1].res = "Ok"
             /\ pc'[1] = "idle"
             /\ state' = Clean(state)]_vars

\* A partitioned store was opened again after its drop wrote two records the
\* first relation held with identifier 2 before identifier 1.
C19_Witness ==
    /\ mode.adapter = "Partitioned"
    /\ pc[1] = "idle"
    /\ op[1].call.kind = "open"
    /\ op[1].res = "Ok"
    /\ dropFlush = "wrote"
    /\ state[Rels[1]].records = <<[id |-> 2, val |-> 1], [id |-> 1, val |-> 1]>>
    /\ state[Rels[2]].records # <<>>

\* What a reader of the target path finds: the complete old content (or no
\* file, when there was none) or the complete new content.
SameFile(f, g) == f.exists = g.exists /\ f.bytes = g.bytes
OldOrNew ==
    /\ sw.target.exists => sw.target.bytes \in FileContents
    /\ \/ SameFile(sw.target, sw.old)
       \/ SameFile(sw.target, FileOf(sw.content, TRUE))

\* C20 as stated: at every step of safe_write, and after a crash at any of them,
\* the target path holds the complete old content or the complete new content.
C20_TargetOldOrNew == OldOrNew

\* The part of C20 that holds: the same, for a target path whose extension is
\* not tmp.
C20_OtherExtensionOldOrNew == ~TempIsTarget(sw) => OldOrNew

\* The relation of RelSpec before and after a step, and the identifiers held.
IdsIn(recs) == {recs[i].id : i \in 1..Len(recs)}

\* C21: a delete of an identifier the relation holds returns Ok with the record
\* held, leaves the relation dirty, without that record and with every other
\* one, so that a get of the identifier finds nothing; a delete of an identifier
\* not held returns Ok with nothing and leaves records, count and dirty flag.
C21_DeleteRemovesOrLeaves ==
    [][InnerCallStep("delete") =>
          LET old == state[Rels[1]]
              new == state'[Rels[1]]
              id == op'[1].call.id
          IN /\ op'[1].res = "Ok"
             /\ op'[1].out = RelGet(old, id)
             /\ RelGet(new, id) = <<>>
             /\ IF RelGet(old, id) # <<>>
                THEN /\ new.is_dirty
                     /\ RelCount(new) = RelCount(old) - 1
                     /\ \A j \in IdsIn(old.records) \ {id} :
                           RelGet(new, j) = RelGet(old, j)
                ELSE /\ new = old
                     /\ RelCount(new) = RelCount(old)]_vars

\* A delete removed the record of identifier 2 and left those of 1 and 3.
C21_Witness ==
    /\ op[1].call.kind = "delete"
    /\ op[1].call.id = 2
    /\ op[1].out # <<>>
    /\ IdsIn(state[Rels[1]].records) = {1, 3}
    /\ state[Rels[1]].is_dirty

\* C22: an insert through the store that returns Ok leaves its record to be
\* found by a get of its identifier and the count of its relation one higher;
\* every other relation keeps its records, and its dirty flag unless the flush
\* of the Instant policy cleared it.
C22_InsertThenGet ==
    [][(InnerCallStep("insert") /\ op'[1].res = "Ok") =>
          LET c == op'[1].call
          IN /\ RelGet(state'[c.rel], c.id) = <<Rec(c)>>
             /\ RelCount(state'[c.rel]) = RelCount(state[c.rel]) + 1
             /\ \A r \in RelNames \ {c.rel} :
                   /\ state'[r].records = state[r].records
                   /\ \/ state'[r].is_dirty = state[r].is_dirty
                      \/ IsInstantSyncPolicy(mode) /\ ~state'[r].is_dirty]_vars

\* An insert made the first relation hold two records while the second relation
\* holds one.
C22_Witness ==
    /\ op[1].call.kind = "insert"
    /\ op[1].call.rel = Rels[1]
    /\ op[1].res = "Ok"
    /\ RelCount(state[Rels[1]]) = 2
    /\ RelGet(state[Rels[1]], op[1].call.id) = <<Rec(op[1].call)>>
    /\ RelCount(state[Rels[2]]) = 1

\* C22 on a relation alone, of up to MaxRelId records: an insert that returns Ok
\* appends its record, which a get finds, and keeps every other record.
C22_RelationInsert ==
    [][(InsertStep /\ op'[1].res = "Ok") =>
          LET c == op'[1].call
              old == state[Rels[1]]
              new == state'[Rels[1]]
          IN /\ RelGet(new, c.id) = <<Rec(c)>>
             /\ RelCount(new) = RelCount(old) + 1
             /\ \A j \in IdsIn(old.records) : RelGet(new, j) = RelGet(old, j)
             /\ state'[Rels[2]] = state[Rels[2]]]_vars

\* The relations whose flag is set.
Flagged(st) == {r \in RelNames : st[r].is_dirty}

\* C23: State::is_dirty is true exactly when the flag of at least one relation
\* is set, so a flush of a persistent store calls the adapter's write exactly
\* then; a flush that returns Ok after its write (where reset_dirty runs) leaves
\* no flag set, hence the aggregate false, and the records as they were.
C23_AggregateDirty ==
    /\ [](StateIsDirty(state) <=> Flagged(state) # {})
    /\ [][InnerCallStep("flush") =>
            /\ mode.tag = "Persistent" => (op'[1].called <=> Flagged(state) # {})
            /\ op'[1].res = "Ok" =>
                  /\ Flagged(state') = {}
                  /\ ~StateIsDirty(state')
                  /\ \A r \in RelNames : state'[r].records = state[r].records
            /\ op'[1].res # "Ok" => state' = state]_vars

\* A flush of a partitioned store found only the second relation dirty, wrote it
\* and left no flag set.
C23_Witness ==
    /\ mode.adapter = "Partitioned"
    /\ op[1].call.kind = "flush"
    /\ op[1].res = "Ok"
    /\ op[1].called
    /\ op[1].asked = <<Rels[2]>>
    /\ Flagged(state) = {}
    /\ state[Rels[2]].records # <<>>

\* C24: in InMemory mode no call, flush() or drop calls the adapter's write, the
\* storage stays as it was and holds nothing at the location, no background thread
\* runs, every call returns Ok or one of the two data errors, flush() returns Ok,
\* and a store opened again starts from the default state, loading nothing.
C24_InMemoryNeverTouchesStorage ==
    /\ [](mode.tag = "InMemory" =>
            /\ disk = EmptyDisk
            /\ fs.loc = "missing"
            /\ pc[BG] = "none"
            /\ ~poisoned
            /\ dropFlush \in {"none", "noop"}
            /\ \A t \in Threads :
                  /\ ~op[t].called
                  /\ op[t].res \in {"-", "Ok", "DuplicatedId", "NotFound"}
            /\ \A h \in Handles :
                  (pc[h] = "ret" /\ op[h].call.kind = "flush") => op[h].res = "Ok")
    /\ [][(mode.tag = "InMemory" /\ Dead /\ ~Dead') => state' = DefaultState]_vars

\* An in-memory store that holds a record returned Ok from flush(), which reset
\* the flags.
C24_Witness ==
    \E h \in Handles :
        /\ mode.tag = "InMemory"
        /\ pc[h] = "ret"
        /\ op[h].call.kind = "flush"
        /\ op[h].res = "Ok"
        /\ state[Rels[1]].records # <<>>
        /\ ~StateIsDirty(state)
        /\ disk[Rels[1]] = <<>>

InCall(h) == pc[h] \in {"locked", "flush", "ret"}
StepOf(h) == pc'[h] # pc[h] \/ op'[h] # op[h]
ApplyStep(h) ==
    /\ pc[h] = "locked"
    /\ pc'[h] \in {"flush", "ret"}
    /\ op'[h].call.kind # "flush"
RecordsChange == \E r \in RelNames : state'[r].records # state[r].records

\* C26: the calls through the handles of a store take effect one at a time, in
\* the order in which they take the lock: while a handle is inside a call no step
\* of another thread changes the state or the storage; the records change only
\* in the one step of the lock's holder in which its method runs (or when the
\* store is opened again); and that step reads the state all the earlier calls
\* left: what it returns is what the relation holds at that step.
C26_CallsAreSerial ==
    [][/\ \A h \in Handles :
             (InCall(h) /\ ~StepOf(h)) => (state' = state /\ disk' = disk)
       /\ RecordsChange =>
             \/ \E h \in Handles : ApplyStep(h) /\ lock = h
             \/ Dead /\ ~Dead'
       /\ \A h \in Handles :
             ApplyStep(h) =>
                LET c == op'[h].call
                    rel == state[c.rel]
                IN /\ \A r \in RelNames \ {c.rel} : state'[r] = state[r]
                   /\ c.kind = "get" => op'[h].out = RelGet(rel, c.id)
                   /\ c.kind = "get_all" => op'[h].out = rel.records
                   /\ c.kind = "get_all_by" =>
                         op'[h].out = SelectSeq(rel.records,
                                                LAMBDA rec : rec.val \in c.pred)
                   /\ c.kind = "count" => op'[h].n = Len(rel.records)
                   /\ c.kind = "insert" =>
                         (op'[h].changed <=> RelGet(rel, c.id) = <<>>)
                   /\ c.kind = "update" =>
                         (op'[h].changed <=> RelGet(rel, c.id) # <<>>)
                   /\ c.kind = "delete" => op'[h].out = RelGet(rel, c.id)
                   /\ c.kind \in ReadKinds => state' = state]_vars

\* A get through one handle returned a record while another handle is alive and
\* the background thread waits for the lock.
C26_Witness ==
    /\ pc[1] = "ret"
    /\ lock = 1
    /\ op[1].call.kind = "get"
    /\ op[1].out # <<>>
    /\ pc[2] = "idle"
    /\ pc[BG] = "upgraded"

\* C27: an update of an identifier the relation holds returns Ok and puts the
\* new record where the held one was: every position holds what it held, except
\* that of the identifier, which holds the new record; the count is the same, a
\* get of the identifier returns the new record, and the relation is dirty.
C27_UpdateInPlace ==
    [][(InnerCallStep("update") /\ Held(op'[1].call) # <<>>) =>
          LET c == op'[1].call
              old == state[Rels[1]].records
              new == state'[Rels[1]].records
          IN /\ op'[1].res = "Ok"
             /\ Len(new) = Len(old)
             /\ \A i \in 1..Len(old) :
                   new[i] = IF old[i].id = c.id THEN Rec(c) ELSE old[i]
             /\ RelGet(state'[Rels[1]], c.id) = <<Rec(c)>>
             /\ RelCount(state'[Rels[1]]) = RelCount(state[Rels[1]])
             /\ state'[Rels[1]].is_dirty]_vars

\* An update replaced the second of three records.
C27_Witness ==
    /\ op[1].call.kind = "update"
    /\ op[1].res = "Ok"
    /\ Len(state[Rels[1]].records) = 3
    /\ state[Rels[1]].records[2] = Rec(op[1].call)
    /\ state[Rels[1]].is_dirty

\* C28: delete_all_by returns Ok with the records that satisfy the predicate, in
\* their order, and leaves the others, in their order; the flag is set when a
\* record was removed and is otherwise what it was, as are the records.
C28_DeleteAllBy ==
    [][InnerCallStep("delete_all_by") =>
          LET p == op'[1].call.pred
              old == state[Rels[1]]
              new == state'[Rels[1]]
              removed == SelectSeq(old.records, LAMBDA rec : rec.val \in p)
          IN /\ op'[1].res = "Ok"
             /\ op'[1].out = removed
             /\ new.records = SelectSeq(old.records, LAMBDA rec : rec.val \notin p)
             /\ new.is_dirty <=> (old.is_dirty \/ removed # <<>>)
             /\ removed = <<>> => new = old]_vars

\* A delete_all_by removed two of three records, which it returned in the order
\* they were held; the record left does not satisfy the predicate.
C28_Witness ==
    /\ op[1].call.kind = "delete_all_by"
    /\ Len(op[1].out) = 2
    /\ op[1].out[1].id > op[1].out[2].id
    /\ Len(state[Rels[1]].records) = 1
    /\ state[Rels[1]].records[1].val \notin op[1].call.pred
    /\ state[Rels[1]].is_dirty

\* C29: upsert returns Ok and leaves the relation dirty, whatever it held: a held
\* identifier has its record replaced where it was, with the count unchanged, an
\* identifier not held has the record appended, with the count one higher; on a
\* relation without records the relation left is the one insert leaves.
C29_Upsert ==
    [][InnerCallStep("upsert") =>
          LET c == op'[1].call
              old == state[Rels[1]]
              new == state'[Rels[1]]
          IN /\ op'[1].res = "Ok"
             /\ new.is_dirty
             /\ IF Held(c) # <<>>
                THEN /\ Len(new.records) = Len(old.records)
                     /\ \A i \in 1..Len(old.records) :
                           new.records[i] = IF old.records[i].id = c.id THEN Rec(c)
                                            ELSE old.records[i]
                ELSE new.records = old.records \o <<Rec(c)>>
             /\ old.records = <<>> => new = RelInsert(old, Rec(c)).rel]_vars

\* An upsert replaced the first of two records, in a relation that is dirty.
C29_Witness ==
    /\ op[1].call.kind = "upsert"
    /\ op[1].res = "Ok"
    /\ Len(state[Rels[1]].records) = 2
    /\ state[Rels[1]].records[1] = Rec(op[1].call)
    /\ state[Rels[1]].is_dirty

\* Whether a comes before b in the sequence (both held).
Before(recs, a, b) == Position(recs, a, 1) < Position(recs, b, 1)

C31_GetAllBy ==
    [][InnerCallStep("get_all_by") =>
          LET p == op'[1].call.pred
              old == state[Rels[1]]
              out == op'[1].out
          IN /\ op'[1].res = "Ok"
             /\ out = SelectSeq(old.records, LAMBDA rec : rec.val \in p)
             /\ \A i \in 1..Len(old.records) :
                   old.records[i].val \in p <=> InSeq(old.records[i], out)
             /\ \A i \in 1..Len(out) : out[i].val \in p
             /\ state' = state]_vars

\* get_all_by returned two of three records, in the order they are held, which
\* is not that of their identifiers.
C31_Witness ==
    /\ op[1].call.kind = "get_all_by"
    /\ Len(op[1].out) = 2
    /\ op[1].out[1].id > op[1].out[2].id
    /\ Len(state[Rels[1]].records) = 3
    /\ state[Rels[1]].is_dirty

\* C32: in a persistent store, whenever no thread holds the lock, every relation
\* that is not dirty has its records in storage; with a unified adapter a state
\* that is not dirty has the whole state in storage.
C32_CleanIsPersisted ==
    (mode.tag = "Persistent" /\ lock = Free) =>
        /\ \A r \in RelNames :
              ~state[r].is_dirty => disk[r] = Serialize(state[r])
        /\ (mode.adapter = "Unified" /\ ~StateIsDirty(state)) =>
              disk = [r \in RelNames |-> Serialize(state[r])]

\* With no call in progress, the first relation holds a record that is in
\* storage and is not dirty, while the second is dirty and not yet in storage.
C32_Witness ==
    /\ mode.tag = "Persistent"
    /\ lock = Free
    /\ \A h \in Handles : pc[h] \in {"idle", "none"}
    /\ ~state[Rels[1]].is_dirty
    /\ state[Rels[1]].records # <<>>
    /\ disk[Rels[1]] = state[Rels[1]].records
    /\ state[Rels[2]].is_dirty
    /\ disk[Rels[2]] # state[Rels[2]].records

\* The thread whose step writes: the lock's holder, or the one that drops the
\* store when no handle is left.
Writer(t) ==
    \/ t \in Handles /\ lock = t /\ pc[t] = "flush"
    \/ t = BG /\ lock = BG /\ pc[BG] = "locked"
    \/ pc[t] = "dropping" /\ lock = Free

\* C33: with a unified adapter the file changes only in a flush step of the
\* lock's holder, or of the thread that drops the store, and then holds the whole
\* state the memory holds at that step, which no call is in the middle of
\* changing: records change in one step, under the same lock. So the file always
\* equals the memory as some whole number of mutations left it, and equals the
\* memory whenever nothing was mutated since the last flush that succeeded.
C33_UnifiedFileIsWholeState ==
    /\ [][(mode.adapter = "Unified" /\ disk' # disk) =>
            /\ disk' = [r \in RelNames |-> Serialize(state[r])]
            /\ \A r \in RelNames : state'[r].records = state[r].records
            /\ \E t \in Threads : Writer(t)
            /\ \A h \in Handles : InCall(h) => (lock = h /\ pc[h] = "flush")]_vars
    /\ []((mode.adapter = "Unified" /\ \A r \in RelNames : ~unflushed[r]) =>
            disk = [r \in RelNames |-> Serialize(state[r])])

\* A flush() under a unified adapter wrote a state whose two relations both hold
\* a record.
C33_Witness ==
    \E h \in Handles :
        /\ mode.adapter = "Unified"
        /\ pc[h] = "ret"
        /\ op[h].call.kind = "flush"
        /\ op[h].called
        /\ op[h].res = "Ok"
        /\ \A r \in RelNames : state[r].records # <<>> /\ disk[r] = state[r].records

\* C34: a flush with a partitioned adapter that fails has written the dirty
\* relations that come before the failing one, leaves the file of the failing one
\* as it was, and leaves every dirty flag set; a flush that returns Ok asks for
\* every dirty relation again, those whose file already holds their records
\* (from the failed flush) included, and only then are the flags reset.
C34_PartialFlushIsRepeated ==
    [][PartitionedFlushStep =>
          LET asked == op'[1].asked
              n == Len(asked)
          IN IF op'[1].res # "Ok"
             THEN /\ state' = state
                  /\ n >= 1
                  /\ disk'[asked[n]] = disk[asked[n]]
                  /\ \A i \in 1..(n - 1) :
                        disk'[asked[i]] = Serialize(state[asked[i]])
                  /\ \A r \in RelNames :
                        state[r].is_dirty => state'[r].is_dirty
             ELSE /\ \A r \in RelNames :
                        (state[r].is_dirty /\ disk[r] = Serialize(state[r])) =>
                            InSeq(r, asked)
                  /\ \A r \in RelNames :
                        state[r].is_dirty => (InSeq(r, asked) /\ ~state'[r].is_dirty)
                  /\ \A r \in RelNames : disk'[r] = Serialize(state[r])]_vars

\* A flush failed at the second relation after it wrote the first: the first
\* relation's records are in storage and both relations are still dirty.
C34_Witness ==
    /\ mode.adapter = "Partitioned"
    /\ op[1].call.kind = "flush"
    /\ op[1].res = "Io"
    /\ op[1].asked = Rels
    /\ state[Rels[1]].records # <<>>
    /\ disk[Rels[1]] = Serialize(state[Rels[1]])
    /\ disk[Rels[2]] # Serialize(state[Rels[2]])
    /\ \A r \in RelNames : state[r].is_dirty

\* What stops the load of relation i of a partitioned open: its path holds a
\* directory (NotFile) or a file that does not decode (Deserialize), or holds
\* nothing and the storage refuses the write of the empty file (Io).
LoadFailure(i, failAt) ==
    LET k == fs.ent[Rels[i]] IN
    IF k = "dir" THEN "NotFile"
    ELSE IF k = "bad" THEN "Deserialize"
    ELSE IF k = "missing" /\ failAt = i THEN "Io"
    ELSE "Ok"
\* The first relation, in declaration order, whose load fails; none: Len(Rels) + 1.
FirstFailure(failAt) ==
    LET failing == {i \in 1..Len(Rels) : LoadFailure(i, failAt) # "Ok"} IN
    IF failing = {} THEN Len(Rels) + 1
    ELSE CHOOSE i \in failing : \A j \in failing : i <= j

\* C35: an open with a partitioned adapter of a path that holds a directory, or
\* nothing and the directory could be created, loads the relations in
\* declaration order up to the first whose load fails and returns that error;
\* the directory and the empty files created for the missing relations before
\* it stay in storage, every path from the failing one on is as it was, and no
\* store is opened.
C35_PartitionedOpenStopsAtFirstFailure ==
    [][(/\ OpenStep
        /\ mode.adapter = "Partitioned"
        /\ fs.loc \in {"missing", "dir"}
        /\ ~(fs.loc = "missing" /\ op'[1].failAt = Len(Rels) + 1)) =>
          LET k == FirstFailure(op'[1].failAt) IN
          /\ fs'.loc = "dir"
          /\ \A i \in 1..Len(Rels) :
                LET r == Rels[i] IN
                IF i < k
                THEN /\ fs'.ent[r] = "file"
                     /\ disk'[r] = IF fs.ent[r] = "missing"
                                   THEN Serialize(NewRelation) ELSE disk[r]
                ELSE fs'.ent[r] = fs.ent[r] /\ disk'[r] = disk[r]
          /\ IF k <= Len(Rels)
             THEN /\ op'[1].res = LoadFailure(k, op'[1].failAt)
                  /\ pc'[1] = "none"
                  /\ state' = state
             ELSE /\ op'[1].res = "Ok"
                  /\ pc'[1] = "idle"
                  /\ \A r \in RelNames : state'[r] = Deserialize(disk'[r])]_vars

\* An open of a path that held nothing failed at the second relation: the
\* directory and the first relation's file were created and are left there.
C35_Witness ==
    /\ mode.adapter = "Partitioned"
    /\ op[1].call.kind = "open"
    /\ op[1].found = "missing"
    /\ op[1].res = "Io"
    /\ op[1].failAt = 2
    /\ pc[1] = "none"
    /\ fs.loc = "dir"
    /\ fs.ent[Rels[1]] = "file"
    /\ fs.ent[Rels[2]] = "missing"

\* A step that is a read on the inner store: get, get_all, get_all_by or count.
ReadStep == \E k \in ReadKinds : InnerCallStep(k)

\* C36: get, get_all, get_all_by and count return Ok and leave every relation's
\* records and dirty flag and the storage as they were, under every policy and
\* mode; they never reach the flush hook, so no adapter write is asked for even
\* when the state is dirty under Instant.
C36_ReadsChangeNothing ==
    [][ReadStep =>
          /\ op'[1].res = "Ok"
          /\ state' = state
          /\ disk' = disk
          /\ ~op'[1].changed
          /\ ~op'[1].called
          /\ op'[1].asked = <<>>]_vars

\* Under Instant, a read returned records while the state is dirty from a failed
\* flush and the storage is behind the memory.
C36_Witness ==
    /\ mode.tag = "Persistent"
    /\ IsInstantSyncPolicy(mode)
    /\ op[1].call.kind \in {"get", "get_all_by"}
    /\ op[1].res = "Ok"
    /\ op[1].out # <<>>
    /\ state[op[1].call.rel].is_dirty
    /\ disk[op[1].call.rel] # Serialize(state[op[1].call.rel])

\* A delete of an identifier not held, or a delete_all_by that matches no record.
RemovesNothing(c) ==
    \/ c.kind = "delete" /\ Held(c) = <<>>
    \/ c.kind = "delete_all_by" /\ RelGetAllBy(state[c.rel], c.pred) = <<>>
DeleteStep == \E k \in DeleteKinds : InnerCallStep(k)

\* C37: a delete that finds no record and a delete_all_by that matches none
\* return Ok with nothing removed and do not reach the flush hook under any
\* policy: no adapter write is asked for, every dirty flag stays as it was, so a
\* state dirty from a failed flush stays dirty, and the storage is unchanged.
C37_EmptyDeleteSkipsFlush ==
    [][(DeleteStep /\ RemovesNothing(op'[1].call)) =>
          /\ op'[1].res = "Ok"
          /\ op'[1].out = <<>>
          /\ state' = state
          /\ disk' = disk
          /\ ~op'[1].changed
          /\ ~op'[1].called
          /\ op'[1].asked = <<>>]_vars

\* Under Instant, a delete or delete_all_by that removed nothing returned Ok
\* while the state is dirty from a failed flush and the storage is behind.
C37_Witness ==
    /\ mode.tag = "Persistent"
    /\ IsInstantSyncPolicy(mode)
    /\ op[1].call.kind \in DeleteKinds
    /\ op[1].res = "Ok"
    /\ op[1].out = <<>>
    /\ StateIsDirty(state)
    /\ \E r \in RelNames : state[r].is_dirty /\ disk[r] # Serialize(state[r])

\* The threads that are inside InnerJoydb::drop, and a thread entering or
\* leaving it.
Droppers == {t \in Threads : pc[t] = "dropping"}
EntersDrop(t) == pc[t] # "dropping" /\ pc'[t] = "dropping"
LeavesDrop(t) == pc[t] = "dropping" /\ pc'[t] # "dropping"

\* C38: the drop-time flush is attempted exactly once per opened store, by the
\* thread that releases the last strong reference and at that moment: a handle
\* dropped while another reference is alive flushes nothing; once the flush was
\* attempted no handle is left to make a call, and it is not attempted again
\* before the location is opened anew; when the background thread releases the
\* last reference the flush runs there, once.
C38_DropFlushExactlyOnce ==
    /\ [](/\ Cardinality(Droppers) <= 1
          /\ Dropping => (/\ dropFlush = "none"
                          /\ StrongCount = 0
                          /\ \A h \in Handles : pc[h] \in {"none", "dropping"})
          /\ dropFlush # "none" => (/\ StrongCount = 0
                                    /\ ~Dropping
                                    /\ \A h \in Handles : pc[h] = "none")
          /\ Dead => dropFlush # "none")
    /\ [][/\ dropFlush' # dropFlush =>
                \/ dropFlush' = "none" /\ pc'[1] = "idle" /\ Dead
                \/ dropFlush = "none" /\ \E t \in Threads : LeavesDrop(t)
          /\ \A t \in Threads :
                EntersDrop(t) => (StrongCount = 1 /\ StrongCount' = 0)
          /\ (StrongCount >= 1 /\ StrongCount' = 0) =>
                \E t \in Threads : EntersDrop(t)
          /\ \A h \in Handles :
                (pc[h] = "idle" /\ pc'[h] = "none") =>
                    (/\ StrongCount > 1
                     /\ state' = state /\ disk' = disk
                     /\ dropFlush' = dropFlush)
          /\ \A t \in Threads :
                LeavesDrop(t) =>
                    (/\ dropFlush = "none" /\ dropFlush' # "none"
                     /\ (mode.tag = "Persistent" /\ StateIsDirty(state)) =>
                            dropFlush' \in {"wrote", "fail"}
                     /\ dropFlush' = "wrote" =>
                            \A r \in RelNames : disk'[r] = Serialize(state[r])
                     /\ ~StateIsDirty(state) =>
                            (dropFlush' = "noop" /\ disk' = disk))]_vars

\* The background thread held the last strong reference after every handle was
\* dropped, and the final flush ran on it and wrote the pending records.
C38_Witness ==
    /\ op[BG].call = DropCall
    /\ dropFlush = "wrote"
    /\ \A h \in Handles : pc[h] = "none" /\ op[h].call # DropCall
    /\ \E r \in RelNames : disk[r] # Serialize(NewRelation)

\* A call that reached its result under the guard, and one that ended.
HasResult(t) == pc[t] = "ret"
Waiting(t) == IF t = BG THEN pc[BG] = "upgraded" ELSE pc[t] = "called"
Ended(t) ==
    IF t = BG THEN pc[BG] \in {"sleep", "dropping", "exited", "panicked"}
    ELSE pc[t] = "idle"

\* C39: with a fair lock and writes that return, every call entered through a
\* handle and every flush of the background thread eventually returns a result.
C39_EveryCallReturns ==
    \A t \in Threads : Waiting(t) ~> HasResult(t)

\* C39, the lock: a thread takes the Mutex only while it waits for it and does
\* not hold it, holds it exactly from there to the end of its call, and the
\* Mutex is held by that thread and no other meanwhile.
C39_LockTakenOnceAndReleased ==
    /\ [](\A h \in Handles : (lock = h) <=> InCall(h))
    /\ []((lock = BG) <=> (pc[BG] \in {"locked", "ret"}))
    /\ [][/\ \A t \in Threads :
                (lock' = t /\ lock # t) => (Waiting(t) /\ lock = Free)
          /\ \A h \in Handles :
                (lock = h /\ lock' # h) => (pc[h] = "ret" /\ pc'[h] = "idle"
                                           /\ lock' = Free)
          /\ (lock = BG /\ lock' # BG) => lock' = Free]_vars

\* C39, the end of every call: with a fair lock and writes that return, every
\* call entered through a handle ends, with a result or with the panic on the
\* poisoned Mutex, and every flush of the background thread ends, with its
\* return or with its panic; no thread waits for the Mutex for ever.
C39_EveryCallEnds ==
    \A t \in Threads : Waiting(t) ~> Ended(t)

\* The open of the location a dropped store left, and the end of a flush on a
\* handle or on the background thread.
ReopenStep == Dead /\ pc'[1] = "idle"
FlushEnds(t) ==
    IF t = BG THEN pc[BG] = "locked" /\ pc'[BG] # "locked"
    ELSE pc[t] = "flush" /\ pc'[t] # "flush"

\* C40: a store opened on the location a store wrote holds the persisted records
\* with every dirty flag false; and as long as no call has changed a record,
\* the state stays clean and nothing writes: a flush() on a handle and a flush
\* of the background thread return Ok without an adapter write, the drop-time
\* flush writes nothing, and the storage stays as it was found.
C40_OpenedCleanWritesNothing ==
    [][/\ ReopenStep =>
             (/\ \A r \in RelNames : /\ ~state'[r].is_dirty
                                     /\ Serialize(state'[r]) = disk[r]
              /\ disk' = disk)
       /\ ~StateIsDirty(state) =>
             (/\ disk' = disk
              /\ StateIsDirty(state') =>
                    \E h \in Handles : ApplyStep(h) /\ op'[h].changed
              /\ \A t \in Threads :
                    FlushEnds(t) => (/\ pc'[t] = "ret"
                                     /\ op'[t].res = "Ok"
                                     /\ ~op'[t].called)
              /\ \A t \in Threads : LeavesDrop(t) => dropFlush' = "noop")]_vars

\* Under Manual, a location holding records was opened, flush() returned Ok
\* without writing and the store was dropped without writing: no call changed a
\* record since the open, and the storage holds what was found.
C40_Witness ==
    /\ mode.tag = "Persistent"
    /\ mode.sync_policy = "Manual"
    /\ flushed = "noop"
    /\ dropFlush = "noop"
    /\ unflushed = AllFalse
    /\ disk[Rels[1]] # Serialize(NewRelation)
    /\ \A r \in RelNames : disk[r] = Serialize(state[r])

\* C40 on a location in any condition: an open that returns Ok gives a state
\* with every dirty flag false, and a flush or a drop that directly follows it
\* asks the adapter for no write and leaves the storage as the open left it.
C40_LoadedStateIsClean ==
    [][/\ (OpenStep /\ op'[1].res = "Ok") => ~StateIsDirty(state')
       /\ (/\ op[1].call.kind = "open" /\ op[1].res = "Ok"
           /\ op'[1].call.kind \in {"flush", "drop"}) =>
             (/\ disk' = disk
              /\ fs' = fs
              /\ ~op'[1].called
              /\ op'[1].asked = <<>>
              /\ op'[1].call.kind = "drop" => dropFlush' = "noop")]_vars

====
